---- MODULE Spec2Model ----
(***************************************************************************)
(* A model of the mcp-zero core: the hardware manager's reservation        *)
(* ledger (src/hm), and the kernel with its trace chain, ethical tree,     *)
(* plugin manager and agents (src/kernel).                                 *)
(*                                                                         *)
(* The specifications share the variables:                                 *)
(*   SpecHM        sequential allocate_resources / release_resources       *)
(*   SpecHMConc    allocate_resources called from several threads          *)
(*   SpecTracker   a ResourceTracker: add_stats and should_warn            *)
(*   SpecMonitor   add_alert_handler and the start_monitoring thread       *)
(*   SpecTrace     the PoseidonTracer API called directly                  *)
(*   SpecTraceConc record_event on one thread, begin/end_trace on another  *)
(*   SpecTree      an EthicalBinaryTree: add_rule, evaluate, evaluate_rule *)
(*   SpecSpawn     spawn_agent on a kernel with its default tree           *)
(*   Spec          the MCPKernel API, one call at a time                   *)
(*   SpecStore     snapshot, recover and Drop with the storage module      *)
(*   SpecStoreConc save_agent and load_agent on two threads                *)
(* Each leaves the variables of the other components unchanged.            *)
(***************************************************************************)
EXTENDS Integers, Sequences, FiniteSets, TLC

VARIABLES
    allocations,   \* hm: HardwareManager.allocations, agent_id -> AgentAllocation
    hm_ret,        \* hm: the last call and what it returned
    hm_pc,         \* hm: per thread, where its allocate_resources call stands
    hm_req,        \* hm: per thread, the AgentAllocation it was called with
    tracker,       \* hm: a ResourceTracker
    now,           \* chrono::Utc::now().timestamp(): the clock, in seconds
    active_traces, \* PoseidonTracer.active_traces, trace id -> TraceContext
    entries,       \* PoseidonTracer.entries, the Vec<TraceEntry>
    ret,           \* the last kernel or tracer call and what it returned
    agent_store,   \* MCPKernel.agent_store, agent id -> Agent
    plugin_cache,  \* PluginManager.plugins, plugin id -> Plugin
    nodes,         \* EthicalBinaryTree.nodes, node id -> EthicalNode
    storage,       \* storage::STORAGE and the files under its directory
    saved,         \* history: the Agent last handed to save_agent, by id
    monitor,       \* hm: the monitoring thread, the handlers and what they got
    rec,           \* a record_event call in flight on a second thread
    allocator,     \* hm: a ResourceAllocator
    calls          \* per thread, the kernel or plugin-manager call it is in

hmVars == <<allocations, hm_ret, hm_pc, hm_req, tracker>>
traceVars == <<now, active_traces, entries, ret>>
kernelVars == <<agent_store, plugin_cache, nodes>>
storeVars == <<storage, saved>>
restVars == <<monitor, rec, allocator, calls>>

\* Option::None of a string-valued option, and of a structured one.
None == "None"
Nil == << >>

(***************************************************************************)
(* Hardware manager: src/hm/src/lib.rs                                     *)
(***************************************************************************)

\* HMConfig defaults, copied into HardwareManager.limits by new().
\* f32 percentages are modelled as whole percents.
LimitCpu == 30
LimitMem == 800

\* Bounds of the hardware-manager model.
MaxHmAgents == 3
NumHmThreads == 2

HmAgentIds == 1..MaxHmAgents
HmThreads == 1..NumHmThreads

\* The values a caller passes.  cpu_percent is an f32 and nothing in
\* AgentAllocation::new or allocate_resources rejects a negative one;
\* memory_mb is a u32.  The memory values are far from 2^32, so the u32
\* additions of the admission check do not overflow here.
CpuValues == {-10, 20, 40}
MemValues == {400, 500}
PriorityValues == {5}

AgentAllocation(id, cpu, mem, prio) ==
    [agent_id |-> id, cpu_percent |-> cpu, memory_mb |-> mem, priority |-> prio]

AllocationInputs ==
    { AgentAllocation(id, c, m, p) :
        id \in HmAgentIds, c \in CpuValues, m \in MemValues, p \in PriorityValues }

\* The requests of the threads of SpecHMConc: well-formed ones only (no
\* negative share), so that only the interleaving decides the ledger sums.
ConcAllocationInputs ==
    { a \in AllocationInputs : a.cpu_percent >= 0 }

RECURSIVE SumCpu(_, _)
SumCpu(allocs, ids) ==
    IF ids = {} THEN 0
    ELSE LET id == CHOOSE x \in ids : TRUE
         IN  allocs[id].cpu_percent + SumCpu(allocs, ids \ {id})

RECURSIVE SumMem(_, _)
SumMem(allocs, ids) ==
    IF ids = {} THEN 0
    ELSE LET id == CHOOSE x \in ids : TRUE
         IN  allocs[id].memory_mb + SumMem(allocs, ids \ {id})

\* generate_report's totals: the sums over the whole ledger.
TotalAllocatedCpu(allocs) == SumCpu(allocs, DOMAIN allocs)
TotalAllocatedMemory(allocs) == SumMem(allocs, DOMAIN allocs)

\* The first block of allocate_resources, under the read lock: the request
\* plus every entry of another agent_id, compared with the limits.
AdmissionCheck(allocs, allocation) ==
    LET others == (DOMAIN allocs) \ {allocation.agent_id}
        total_cpu == allocation.cpu_percent + SumCpu(allocs, others)
        total_memory == allocation.memory_mb + SumMem(allocs, others)
    IN  IF total_cpu > LimitCpu THEN "ResourceLimitExceeded"
        ELSE IF total_memory > LimitMem THEN "ResourceLimitExceeded"
        ELSE "Ok"

\* The second block, under the write lock: HashMap::insert.
LedgerInsert(allocs, allocation) ==
    [id \in (DOMAIN allocs) \cup {allocation.agent_id} |->
        IF id = allocation.agent_id THEN allocation ELSE allocs[id]]

LedgerRemove(allocs, agent_id) ==
    [id \in (DOMAIN allocs) \ {agent_id} |-> allocs[id]]

HmInit ==
    /\ allocations = << >>
    /\ hm_ret = [op |-> "new", result |-> "Ok"]
    /\ hm_pc = [t \in HmThreads |-> "idle"]
    /\ hm_req = [t \in HmThreads |-> Nil]

\* An allocate_resources that empties the ledger when it rejects.
AllocateResourcesEvicts(allocation) ==
    LET r == AdmissionCheck(allocations, allocation)
    IN  /\ allocations' = IF r = "Ok" THEN LedgerInsert(allocations, allocation)
                          ELSE << >>
        /\ hm_ret' = [op |-> "allocate_resources", arg |-> allocation, result |-> r]
        /\ UNCHANGED <<hm_pc, hm_req, tracker>>

\* allocate_resources, called with no other call in flight.
AllocateResources(allocation) ==
    LET r == AdmissionCheck(allocations, allocation)
    IN  /\ allocations' = IF r = "Ok" THEN LedgerInsert(allocations, allocation)
                          ELSE allocations
        /\ hm_ret' = [op |-> "allocate_resources", arg |-> allocation, result |-> r]
        /\ UNCHANGED <<hm_pc, hm_req, tracker>>

\* release_resources.
ReleaseResources(agent_id) ==
    /\ IF agent_id \in DOMAIN allocations
       THEN /\ allocations' = LedgerRemove(allocations, agent_id)
            /\ hm_ret' = [op |-> "release_resources", arg |-> agent_id, result |-> "Ok"]
       ELSE /\ allocations' = allocations
            /\ hm_ret' = [op |-> "release_resources", arg |-> agent_id,
                          result |-> "ConfigError"]
    /\ UNCHANGED <<hm_pc, hm_req, tracker>>

\* allocate_resources on thread t, up to the end of the read-locked block.
AllocCheck(t, allocation) ==
    /\ hm_pc[t] = "idle"
    /\ \A u \in HmThreads :
          hm_pc[u] = "insert" => hm_req[u].agent_id # allocation.agent_id
    /\ LET r == AdmissionCheck(allocations, allocation)
       IN  IF r = "Ok"
           THEN /\ hm_pc' = [hm_pc EXCEPT ![t] = "insert"]
                /\ hm_req' = [hm_req EXCEPT ![t] = allocation]
                /\ hm_ret' = hm_ret
           ELSE /\ hm_ret' = [op |-> "allocate_resources", thread |-> t, result |-> r]
                /\ UNCHANGED <<hm_pc, hm_req>>
    /\ UNCHANGED <<allocations, tracker>>

\* allocate_resources on thread t, the write-locked insert and the return.
AllocInsert(t) ==
    /\ hm_pc[t] = "insert"
    /\ allocations' = LedgerInsert(allocations, hm_req[t])
    /\ hm_ret' = [op |-> "allocate_resources", thread |-> t, result |-> "Ok"]
    /\ hm_pc' = [hm_pc EXCEPT ![t] = "idle"]
    /\ hm_req' = [hm_req EXCEPT ![t] = Nil]
    /\ tracker' = tracker

(***************************************************************************)
(* Resource tracker: src/hm/src/resource.rs.  The clock is the variable    *)
(* now, in whole seconds; a usage ratio is held as <<usage, limit>>.       *)
(***************************************************************************)

\* The throttle window of should_warn, and warning_threshold = 0.8 as tenths.
ThrottleSeconds == 60
ThresholdTenths == 8

\* Bounds of the tracker model: the clock's last second and max_history.
MaxTrackerTime == 61
MaxHistory == 1

\* ResourceTracker::new
TrackerNew(max_history) ==
    [cpu_history |-> << >>, memory_history |-> << >>, max_history |-> max_history,
     last_warning |-> Nil]

\* Vec::push, then Vec::remove(0) when the history is over max_history.
PushCapped(history, item, max_history) ==
    LET pushed == Append(history, item)
    IN  IF Len(pushed) > max_history THEN Tail(pushed) ELSE pushed

\* add_stats
AddStatsTo(tk, stats) ==
    [tk EXCEPT
        !.cpu_history = PushCapped(@, <<stats.timestamp, stats.cpu_percent>>,
                                   tk.max_history),
        !.memory_history = PushCapped(@, <<stats.timestamp, stats.memory_mb>>,
                                      tk.max_history)]

\* usage / limit >= warning_threshold
AtThreshold(usage, limit) == usage * 10 >= ThresholdTenths * limit

\* A should_warn that has no throttle.
ShouldWarnUnthrottled(tk, limits, t) ==
    IF tk.cpu_history = << >> \/ tk.memory_history = << >>
    THEN [tracker |-> tk, result |-> Nil]
    ELSE IF AtThreshold(tk.cpu_history[Len(tk.cpu_history)][2], limits.cpu_percent)
    THEN [tracker |-> [tk EXCEPT !.last_warning = [at |-> t]],
          result |-> [resource |-> "CPU",
                      ratio |-> <<tk.cpu_history[Len(tk.cpu_history)][2],
                                  limits.cpu_percent>>]]
    ELSE [tracker |-> tk, result |-> Nil]

\* should_warn at clock value t: the tracker after the call and the Option
\* returned (Nil for None).
ShouldWarnAt(tk, limits, t) ==
    IF tk.cpu_history = << >> \/ tk.memory_history = << >>
    THEN [tracker |-> tk, result |-> Nil]
    ELSE LET cpu_usage == tk.cpu_history[Len(tk.cpu_history)][2]
             memory_usage == tk.memory_history[Len(tk.memory_history)][2]
             should_throttle ==
                 IF tk.last_warning # Nil
                 THEN t - tk.last_warning.at < ThrottleSeconds
                 ELSE FALSE
         IN  IF ~should_throttle /\ AtThreshold(cpu_usage, limits.cpu_percent)
             THEN [tracker |-> [tk EXCEPT !.last_warning = [at |-> t]],
                   result |-> [resource |-> "CPU",
                               ratio |-> <<cpu_usage, limits.cpu_percent>>]]
             ELSE IF ~should_throttle
                     /\ AtThreshold(memory_usage, limits.memory_mb)
             THEN [tracker |-> [tk EXCEPT !.last_warning = [at |-> t]],
                   result |-> [resource |-> "Memory",
                               ratio |-> <<memory_usage, limits.memory_mb>>]]
             ELSE [tracker |-> tk, result |-> Nil]

\* The callers' values in SpecTracker.
SampleCpu == {10, 25}
SampleMem == {100, 700}
SampleTimestamps == {0}
TrackerLimits == [cpu_percent |-> LimitCpu, memory_mb |-> LimitMem]

TrackerInit == tracker = TrackerNew(MaxHistory)

\* The clock moves on by a second, in the tracker's model.
TrackerTick ==
    /\ now < MaxTrackerTime
    /\ now' = now + 1
    /\ ret' = [op |-> "tick"]
    /\ tracker' = tracker

AddStats(stats) ==
    /\ tracker' = AddStatsTo(tracker, stats)
    /\ ret' = [op |-> "add_stats"]
    /\ now' = now

ShouldWarn(limits) ==
    \E r \in {ShouldWarnAt(tracker, limits, now)} :
        /\ tracker' = r.tracker
        /\ ret' = [op |-> "should_warn", result |-> r.result]
        /\ now' = now

(***************************************************************************)
(* Monitoring: HardwareManager::new, add_alert_handler and the thread of   *)
(* start_monitoring, src/hm/src/lib.rs.  monitor.delivered is what the     *)
(* registered handlers have been handed through AlertHandler::handle;      *)
(* monitor.warned is what the last iteration wrote with tracing::warn!.    *)
(***************************************************************************)

\* Bound of the monitoring model: the handlers registered.
MaxHandlers == 3

\* HardwareManager::new: no handler, stats at zero, no thread.
MonitorInit ==
    monitor = [running |-> FALSE,
               stats |-> [cpu_percent |-> 0, memory_mb |-> 0],
               alert_handlers |-> << >>,
               warned |-> {},
               delivered |-> << >>]

\* add_alert_handler: Vec::push.
AddAlertHandler(handler) ==
    /\ Len(monitor.alert_handlers) < MaxHandlers
    /\ monitor' = [monitor EXCEPT !.alert_handlers = Append(@, handler)]
    /\ hm_ret' = [op |-> "add_alert_handler", result |-> "Ok"]
    /\ UNCHANGED <<allocations, hm_pc, hm_req, tracker>>

\* start_monitoring: the thread is spawned with clones of stats, system,
\* limits and last_update; alert_handlers is not among them.
StartMonitoring ==
    /\ ~monitor.running
    /\ monitor' = [monitor EXCEPT !.running = TRUE]
    /\ hm_ret' = [op |-> "start_monitoring", result |-> "Ok"]
    /\ UNCHANGED <<allocations, hm_pc, hm_req, tracker>>

\* One iteration of the thread's loop on a sample of the process: the stats
\* are stored and each limit that is exceeded is written with
\* tracing::warn!.
MonitorSample(cpu_usage, memory_usage) ==
    /\ monitor.running
    /\ monitor' = [monitor EXCEPT
                      !.stats = [cpu_percent |-> cpu_usage,
                                 memory_mb |-> memory_usage],
                      !.warned = (IF cpu_usage > LimitCpu THEN {"CPU"} ELSE {})
                                 \cup (IF memory_usage > LimitMem THEN {"Memory"}
                                       ELSE {})]
    /\ hm_ret' = [op |-> "sample", cpu_usage |-> cpu_usage,
                  memory_usage |-> memory_usage]
    /\ UNCHANGED <<allocations, hm_pc, hm_req, tracker>>

(***************************************************************************)
(* ResourceAllocator: src/hm/src/resource.rs.  cpu values are f32 percents *)
(* and are kept here in hundredths of a percent; memory values are u32.    *)
(***************************************************************************)

\* ResourceAllocator::new
ResourceAllocatorNew(limits, strategy) ==
    [limits |-> limits, strategy |-> strategy,
     min_cpu_per_agent |-> 100, min_memory_per_agent |-> 10]

\* The u32 quotient v / n of a u32 known by its residue v modulo 2^32, with
\* -2^31 < v < 2^31: a negative v stands for the wrapped value 2^32 + v.
\* The division is done on the two 16-bit halves of the value.
WrappedDivU32(v, n) ==
    IF v >= 0 THEN v \div n
    ELSE LET hi == 65536 + (v \div 65536)
             lo == v % 65536
         IN  (hi \div n) * 65536 + (((hi % n) * 65536 + lo) \div n)

\* calculate_allocation.  overflow_checks is the build's setting: with it
\* an overflowing u32 operation panics, without it the value wraps.  The
\* cpu of the priority-based arm is computed in f32 (a division by zero
\* gives an infinity or a NaN, which f32::min replaces by the limit); the
\* memory of that arm is computed in u32, after the cpu.
CalculateAllocation(a, priority, agent_count, overflow_checks) ==
    LET Clamp(cpu, memory, wrapped) ==
            [outcome |-> "returns",
             cpu |-> IF cpu < a.limits.cpu_percent THEN cpu
                     ELSE a.limits.cpu_percent,
             memory |-> IF memory < a.limits.memory_mb THEN memory
                        ELSE a.limits.memory_mb,
             wrapped |-> wrapped]
        reserved == a.min_memory_per_agent * agent_count
        spare == a.limits.memory_mb - reserved
    IN  IF a.strategy = "Even"
        THEN IF agent_count > 0
             THEN Clamp(((a.limits.cpu_percent * 9) \div 10) \div agent_count,
                        ((a.limits.memory_mb * 9) \div 10) \div agent_count, FALSE)
             ELSE Clamp(a.min_cpu_per_agent, a.min_memory_per_agent, FALSE)
        ELSE IF a.strategy = "PriorityBased"
        THEN IF spare < 0 /\ overflow_checks
             THEN [outcome |-> "panics", message |-> "attempt to subtract with overflow"]
             ELSE IF 10 * agent_count = 0
             THEN [outcome |-> "panics", message |-> "attempt to divide by zero"]
             ELSE Clamp(a.min_cpu_per_agent
                          + ((a.limits.cpu_percent
                                - a.min_cpu_per_agent * agent_count) * priority)
                            \div (10 * agent_count),
                        a.min_memory_per_agent
                          + WrappedDivU32(spare * priority, 10 * agent_count),
                        spare < 0)
        ELSE Clamp(a.min_cpu_per_agent, a.min_memory_per_agent, FALSE)

AllocatorInit ==
    allocator = ResourceAllocatorNew([cpu_percent |-> 3000, memory_mb |-> 800], "Even")

\* A caller building a new allocator.
AllocatorNew(limits, strategy) ==
    /\ allocator' = ResourceAllocatorNew(limits, strategy)
    /\ hm_ret' = [op |-> "allocator_new", result |-> "Ok"]
    /\ UNCHANGED <<allocations, hm_pc, hm_req, tracker>>

\* set_minimums
SetMinimums(min_cpu, min_memory) ==
    /\ allocator' = [allocator EXCEPT !.min_cpu_per_agent = min_cpu,
                                      !.min_memory_per_agent = min_memory]
    /\ hm_ret' = [op |-> "set_minimums", result |-> "Ok"]
    /\ UNCHANGED <<allocations, hm_pc, hm_req, tracker>>

\* A caller of calculate_allocation.
AllocatorCalculate(priority, agent_count, overflow_checks) ==
    /\ hm_ret' = [op |-> "calculate_allocation", priority |-> priority,
                  agent_count |-> agent_count,
                  overflow_checks |-> overflow_checks,
                  result |-> CalculateAllocation(allocator, priority, agent_count,
                                                 overflow_checks)]
    /\ UNCHANGED <<allocations, hm_pc, hm_req, tracker, allocator>>

(***************************************************************************)
(* Strings.  A Rust String is a sequence of one-character strings, so that *)
(* to_lowercase and contains are computed and not assumed.                 *)
(***************************************************************************)

UpperChars == <<"A", "B", "C", "D", "E", "F", "G", "H", "I", "J", "K", "L", "M",
                "N", "O", "P", "Q", "R", "S", "T", "U", "V", "W", "X", "Y", "Z">>
LowerChars == <<"a", "b", "c", "d", "e", "f", "g", "h", "i", "j", "k", "l", "m",
                "n", "o", "p", "q", "r", "s", "t", "u", "v", "w", "x", "y", "z">>

LowerChar(c) ==
    IF \E i \in 1..Len(UpperChars) : UpperChars[i] = c
    THEN LowerChars[CHOOSE i \in 1..Len(UpperChars) : UpperChars[i] = c]
    ELSE c

\* str::to_lowercase
ToLowercase(s) == [i \in 1..Len(s) |-> LowerChar(s[i])]

\* str::contains(pattern)
StrContains(s, pat) ==
    \E i \in 0..(Len(s) - Len(pat)) : SubSeq(s, i + 1, i + Len(pat)) = pat

S_malware == <<"m", "a", "l", "w", "a", "r", "e">>
S_exploit == <<"e", "x", "p", "l", "o", "i", "t">>
S_hack == <<"h", "a", "c", "k">>
S_attack == <<"a", "t", "t", "a", "c", "k">>
S_virus == <<"v", "i", "r", "u", "s">>
S_harm == <<"h", "a", "r", "m">>
S_delete_all == <<"d", "e", "l", "e", "t", "e", "_", "a", "l", "l">>
S_format == <<"f", "o", "r", "m", "a", "t">>
S_wipe == <<"w", "i", "p", "e">>
S_destroy == <<"d", "e", "s", "t", "r", "o", "y">>
S_general == <<"g", "e", "n", "e", "r", "a", "l">>
S_greet == <<"g", "r", "e", "e", "t">>
S_bot == <<"b", "o", "t">>
S_Hackbot == <<"H", "a", "c", "k", "b", "o", "t">>
S_Wipe == <<"W", "i", "p", "e">>

\* The strings the callers pass are held by name; Spelling gives a string's
\* characters.
Spelling(s) ==
    CASE s = "bot" -> S_bot
      [] s = "Hackbot" -> S_Hackbot
      [] s = "greet" -> S_greet
      [] s = "harm" -> S_harm
      [] s = "Wipe" -> S_Wipe
      [] s = "general" -> S_general
      [] s = "MalwareBot" -> <<"M", "a", "l", "w", "a", "r", "e", "B", "o", "t">>
      [] s = "xExploit" -> <<"x", "E", "x", "p", "l", "o", "i", "t">>
      [] s = "ATTACKER" -> <<"A", "T", "T", "A", "C", "K", "E", "R">>
      [] s = "myVirus" -> <<"m", "y", "V", "i", "r", "u", "s">>
      [] s = "Helper" -> <<"H", "e", "l", "p", "e", "r">>

(***************************************************************************)
(* Ethical tree: src/kernel/src/ethical.rs                                 *)
(***************************************************************************)

EthicalNode(id, rule, parent, left, right, decision) ==
    [id |-> id, rule |-> rule, parent |-> parent, left |-> left, right |-> right,
     decision |-> decision]

\* EthicalBinaryTree::new: the default nodes, by node id.
DefaultNodes ==
    [id \in {"root", "allow", "harmful", "deny", "check_legal", "deny_illegal",
             "allow_legal"} |->
        CASE id = "root" ->
                EthicalNode("root", "is_harmful", None, "allow", "harmful", None)
          [] id = "allow" ->
                EthicalNode("allow", "allow", "root", None, None, "Allow")
          [] id = "harmful" ->
                EthicalNode("harmful", "has_consent", "root", "deny", "check_legal", None)
          [] id = "deny" ->
                EthicalNode("deny", "deny", "harmful", None, None, "Deny")
          [] id = "check_legal" ->
                EthicalNode("check_legal", "is_legal", "harmful", "deny_illegal",
                            "allow_legal", None)
          [] id = "deny_illegal" ->
                EthicalNode("deny_illegal", "deny_illegal", "check_legal", None, None,
                            "Deny")
          [] id = "allow_legal" ->
                EthicalNode("allow_legal", "allow_legal", "check_legal", None, None,
                            "Allow")]

RootId == "root"

\* An evaluate_rule whose has_consent arm answers false.
EvaluateRuleWithoutConsent(rule, context, data) ==
    IF rule = "is_harmful" /\ context = "agent_spawn"
    THEN /\ "intents" \in DOMAIN data
         /\ \E k \in 1..Len(data.intents) :
               LET intent_lower == ToLowercase(Spelling(data.intents[k]))
               IN  \/ StrContains(intent_lower, S_harm)
                   \/ StrContains(intent_lower, S_attack)
                   \/ StrContains(intent_lower, S_exploit)
    ELSE FALSE

\* evaluate_rule: the match arms in their order.  data is the JSON payload, a
\* record; a payload without "intents" has no such field.
EvaluateRule(rule, context, data) ==
    IF rule = "is_harmful" /\ context = "agent_spawn"
    THEN /\ "intents" \in DOMAIN data
         /\ \E k \in 1..Len(data.intents) :
               LET intent_lower == ToLowercase(Spelling(data.intents[k]))
               IN  \/ StrContains(intent_lower, S_harm)
                   \/ StrContains(intent_lower, S_attack)
                   \/ StrContains(intent_lower, S_exploit)
    ELSE IF rule = "is_harmful" THEN FALSE
    ELSE IF rule = "has_consent" THEN TRUE
    ELSE IF rule = "is_legal" THEN TRUE
    ELSE IF context = "plugin_validation" THEN FALSE
    ELSE FALSE

\* An evaluate that denies when the false branch is missing.
RECURSIVE EvaluateFromDenyingLeft(_, _, _, _, _)
EvaluateFromDenyingLeft(nodeMap, current_id, context, data, fuel) ==
    IF current_id \notin DOMAIN nodeMap THEN "Deny"
    ELSE LET node == nodeMap[current_id]
         IN  IF node.decision # None THEN node.decision
             ELSE IF fuel = 0 THEN "Diverges"
             ELSE IF EvaluateRule(node.rule, context, data)
                  THEN IF node.right = None THEN "Deny"
                       ELSE EvaluateFromDenyingLeft(nodeMap, node.right, context,
                                                    data, fuel - 1)
                  ELSE IF node.left = None THEN "Deny"
                       ELSE EvaluateFromDenyingLeft(nodeMap, node.left, context,
                                                    data, fuel - 1)

\* evaluate: the traversal loop.  fuel counts the nodes still to be visited; a
\* walk longer than the node map is a walk that never returns ("Diverges").
RECURSIVE EvaluateFrom(_, _, _, _, _)
EvaluateFrom(nodeMap, current_id, context, data, fuel) ==
    IF current_id \notin DOMAIN nodeMap THEN "Deny"
    ELSE LET node == nodeMap[current_id]
         IN  IF node.decision # None THEN node.decision
             ELSE IF fuel = 0 THEN "Diverges"
             ELSE IF EvaluateRule(node.rule, context, data)
                  THEN IF node.right = None THEN "Deny"
                       ELSE EvaluateFrom(nodeMap, node.right, context, data, fuel - 1)
                  ELSE IF node.left = None THEN "Allow"
                       ELSE EvaluateFrom(nodeMap, node.left, context, data, fuel - 1)

Evaluate(nodeMap, context, data) ==
    EvaluateFrom(nodeMap, RootId, context, data, Cardinality(DOMAIN nodeMap))

ProhibitedTerms == <<S_malware, S_exploit, S_hack, S_attack, S_virus>>
ProhibitedActions == <<S_delete_all, S_format, S_wipe, S_destroy>>

\* A validate_spawn that looks for the terms in the name as it is written.
ValidateSpawnCaseSensitive(nodeMap, config) ==
    IF \E k \in 1..Len(ProhibitedTerms) :
           StrContains(Spelling(config.name), ProhibitedTerms[k])
    THEN "Err"
    ELSE IF Evaluate(nodeMap, "agent_spawn",
                     [name |-> config.name, intents |-> config.intents]) = "Allow"
         THEN "Ok" ELSE "Err"

\* validate_spawn: "Ok" or the error.
ValidateSpawn(nodeMap, config) ==
    IF \E k \in 1..Len(ProhibitedTerms) :
           StrContains(ToLowercase(Spelling(config.name)), ProhibitedTerms[k])
    THEN "Err"
    ELSE IF Evaluate(nodeMap, "agent_spawn",
                     [name |-> config.name, intents |-> config.intents]) = "Allow"
         THEN "Ok" ELSE "Err"

RiskLevel(capabilities) ==
    IF capabilities.external_access THEN "high"
    ELSE IF capabilities.plugin_call THEN "medium"
    ELSE "low"

\* validate_plugin
ValidatePlugin(nodeMap, plugin) ==
    IF Evaluate(nodeMap, "plugin_validation",
                [id |-> plugin.id,
                 risk_level |-> RiskLevel(plugin.capabilities),
                 external_access |-> plugin.capabilities.external_access,
                 plugin_call |-> plugin.capabilities.plugin_call]) = "Allow"
    THEN "Ok" ELSE "Err"

\* validate_execution
ValidateExecution(nodeMap, agent_id, intent) ==
    IF \E k \in 1..Len(ProhibitedActions) :
           StrContains(ToLowercase(Spelling(intent)), ProhibitedActions[k])
    THEN "Err"
    ELSE IF Evaluate(nodeMap, "execution_validation",
                     [agent_id |-> agent_id, intent |-> intent]) = "Allow"
         THEN "Ok" ELSE "Err"

\* validate_recovery
ValidateRecovery(nodeMap, agent_id) == "Ok"

\* An add_rule that keeps the children of a node it replaces.
AddRuleNodesKeepsChildren(nodeMap, parent_id, rule_id, rule, decision) ==
    LET withParent == [nodeMap EXCEPT ![parent_id].left = rule_id]
        node == IF rule_id \in DOMAIN nodeMap
                THEN [withParent[rule_id] EXCEPT !.rule = rule, !.parent = parent_id,
                                                 !.decision = decision]
                ELSE EthicalNode(rule_id, rule, parent_id, None, None, decision)
    IN  [id \in (DOMAIN nodeMap) \cup {rule_id} |->
            IF id = rule_id THEN node ELSE withParent[id]]

\* add_rule on the node map: the parent's left slot is set first, then the
\* new node is inserted under rule_id (replacing a node of that id).
AddRuleNodes(nodeMap, parent_id, rule_id, rule, decision) ==
    LET node == EthicalNode(rule_id, rule, parent_id, None, None, decision)
        withParent == [nodeMap EXCEPT ![parent_id].left = rule_id]
    IN  [id \in (DOMAIN nodeMap) \cup {rule_id} |->
            IF id = rule_id THEN node ELSE withParent[id]]

(***************************************************************************)
(* Trace chain: src/kernel/src/trace.rs                                    *)
(***************************************************************************)

\* Bounds of the trace model: the clock's last second and the log's length.
MaxTime == 1
MaxEntries == 4

\* compute_hash: SHA3-256 over prev_hash, ":" and data, or over data alone.
\* The digest is collision resistant: it is modelled by the pair it is
\* computed from, so two hashes are equal exactly when their inputs are.
ComputeHash(data, prev_hash) == [prev |-> prev_hash, data |-> data]

\* "trace_" followed by the first 16 hex digits of the initial hash.
TraceIdOf(initial_hash) == [trace |-> initial_hash]

TraceEntry(id, agent_id, event_type, data, timestamp, prev_hash, hash) ==
    [id |-> id, agent_id |-> agent_id, event_type |-> event_type, data |-> data,
     timestamp |-> timestamp, prev_hash |-> prev_hash, hash |-> hash]

MapPut(f, k, v) == [x \in (DOMAIN f) \cup {k} |-> IF x = k THEN v ELSE f[x]]
MapRemove(f, k) == [x \in (DOMAIN f) \ {k} |-> f[x]]

\* begin_trace.  tr is the tracer, [active, entries]; the result carries the
\* tracer after the call and the trace id returned.
BeginTrace(tr, agent_id, intent, t) ==
    LET initial_hash == ComputeHash([agent_id |-> agent_id, intent |-> intent,
                                     now |-> t], Nil)
        trace_id == TraceIdOf(initial_hash)
        context == [id |-> trace_id, agent_id |-> agent_id, intent |-> intent,
                    last_hash |-> initial_hash, start_time |-> t,
                    status |-> "Active"]
        entry == TraceEntry(trace_id, agent_id, "trace.begin",
                            [intent |-> intent, timestamp |-> t], t, Nil,
                            initial_hash)
    IN  [active |-> MapPut(tr.active, trace_id, context),
         entries |-> Append(tr.entries, entry),
         trace_id |-> trace_id,
         result |-> "Ok"]

\* end_trace.  result is the optional JSON value; the hash covers the data
\* and the previous hash.
EndTrace(tr, trace_id, success, result, t) ==
    IF trace_id \notin DOMAIN tr.active
    THEN [active |-> tr.active, entries |-> tr.entries, result |-> "TraceNotFound"]
    ELSE LET context == tr.active[trace_id]
             prev_hash == context.last_hash
             duration == t - context.start_time
             data == IF result # Nil
                     THEN [success |-> success, duration_ms |-> duration * 1000,
                           result |-> result]
                     ELSE [success |-> success, duration_ms |-> duration * 1000]
             hash == ComputeHash(data, prev_hash)
             entry == TraceEntry(trace_id, context.agent_id, "trace.end", data, t,
                                 prev_hash, hash)
         IN  [active |-> MapRemove(tr.active, trace_id),
              entries |-> Append(tr.entries, entry),
              result |-> "Ok"]

\* The traces the read-locked loop of record_event can stop at: the Active
\* traces of the agent.  Which one it meets first is the HashMap's order.
ActiveTracesOf(active, agent_id) ==
    { id \in DOMAIN active :
        active[id].agent_id = agent_id /\ active[id].status = "Active" }

\* The write-locked part of record_event, for the trace id found or begun.
RecordEventIn(tr, trace_id, agent_id, event_type, data, t) ==
    IF trace_id \notin DOMAIN tr.active
    THEN [active |-> tr.active, entries |-> tr.entries, result |-> "TraceNotFound"]
    ELSE LET prev_hash == tr.active[trace_id].last_hash
             hash == ComputeHash([event_type |-> event_type, data |-> data,
                                  now |-> t], prev_hash)
             entry == TraceEntry(trace_id, agent_id, event_type, data, t, prev_hash,
                                 hash)
         IN  [active |-> [tr.active EXCEPT ![trace_id].last_hash = hash],
              entries |-> Append(tr.entries, entry),
              result |-> "Ok"]

\* record_event with no other call in flight.  found is the Active trace the
\* loop stopped at, Nil when the agent has none and a "general" trace is begun.
RecordEvent(tr, agent_id, event_type, data, t, found) ==
    IF found # Nil
    THEN RecordEventIn(tr, found, agent_id, event_type, data, t)
    ELSE LET b == BeginTrace(tr, agent_id, "general", t)
         IN  RecordEventIn([active |-> b.active, entries |-> b.entries], b.trace_id,
                           agent_id, event_type, data, t)

\* The values found can take in record_event for this agent.
FoundChoices(active, agent_id) ==
    IF ActiveTracesOf(active, agent_id) = {} THEN {Nil}
    ELSE ActiveTracesOf(active, agent_id)

\* An export that takes the root hash from the first entry of the trace.
ExportZkProofFirst(tr, trace_id, t) ==
    LET trace_entries == SelectSeq(tr.entries, LAMBDA e : e.id = trace_id)
    IN  IF trace_entries = << >> THEN [result |-> "Err"]
        ELSE [result |-> "Ok",
              proof |-> [trace_id |-> trace_id,
                         agent_id |-> trace_entries[1].agent_id,
                         entries |-> Len(trace_entries),
                         root_hash |-> trace_entries[1].hash,
                         timestamp |-> t]]

\* export_zk_proof: the entries of the trace filtered out of the log, their
\* number and the hash of the last one.
ExportZkProof(tr, trace_id, t) ==
    LET trace_entries == SelectSeq(tr.entries, LAMBDA e : e.id = trace_id)
    IN  IF trace_entries = << >> THEN [result |-> "Err"]
        ELSE [result |-> "Ok",
              proof |-> [trace_id |-> trace_id,
                         agent_id |-> trace_entries[1].agent_id,
                         entries |-> Len(trace_entries),
                         root_hash |-> trace_entries[Len(trace_entries)].hash,
                         timestamp |-> t]]

Tracer == [active |-> active_traces, entries |-> entries]

TraceInit ==
    /\ now = 0
    /\ active_traces = << >>
    /\ entries = << >>
    /\ ret = [op |-> "new"]

\* The clock moves on by a second.
Tick ==
    /\ now < MaxTime
    /\ now' = now + 1
    /\ ret' = [op |-> "tick"]
    /\ UNCHANGED <<active_traces, entries>>

\* The callers' values in SpecTrace.
TraceAgentIds == {"agent_a", "agent_b"}
TraceIntents == {"greet", "general"}
TraceEvents == {"test_event"}
TraceData == {[data |-> "test"]}
TraceResults == {Nil, [result |-> "success"]}

\* The trace ids a caller can hold: those begin_trace has returned.
KnownTraceIds == { entries[i].id : i \in 1..Len(entries) }

TraceBegin(agent_id, intent) ==
    /\ Len(entries) + 1 <= MaxEntries
    /\ LET r == BeginTrace(Tracer, agent_id, intent, now)
       IN  /\ active_traces' = r.active
           /\ entries' = r.entries
           /\ ret' = [op |-> "begin_trace", agent_id |-> agent_id, result |-> r.result,
                      trace_id |-> r.trace_id]
    /\ now' = now

TraceRecord(agent_id, event_type, data, found) ==
    /\ Len(entries) + 2 <= MaxEntries
    /\ found \in FoundChoices(active_traces, agent_id)
    /\ LET r == RecordEvent(Tracer, agent_id, event_type, data, now, found)
       IN  /\ active_traces' = r.active
           /\ entries' = r.entries
           /\ ret' = [op |-> "record_event", agent_id |-> agent_id, result |-> r.result]
    /\ now' = now

TraceEnd(trace_id, success, result) ==
    /\ Len(entries) + 1 <= MaxEntries
    /\ LET r == EndTrace(Tracer, trace_id, success, result, now)
       IN  /\ active_traces' = r.active
           /\ entries' = r.entries
           /\ ret' = [op |-> "end_trace", trace_id |-> trace_id, result |-> r.result]
    /\ now' = now

\* A trace id no begin_trace of the model returns.
UnknownTraceId ==
    TraceIdOf(ComputeHash([agent_id |-> "agent_a", intent |-> "never", now |-> 0],
                          Nil))

TraceExport(trace_id) ==
    /\ LET r == ExportZkProof(Tracer, trace_id, now)
       IN  ret' = IF r.result = "Ok"
                  THEN [op |-> "export_zk_proof", trace_id |-> trace_id,
                        result |-> r.result, proof |-> r.proof]
                  ELSE [op |-> "export_zk_proof", trace_id |-> trace_id,
                        result |-> r.result]
    /\ UNCHANGED <<now, active_traces, entries>>

\* No record_event call is in flight.
RecInit == rec = [pc |-> "idle"]

\* record_event on a second thread, up to the end of its first block: the
\* read-locked search for an Active trace of the agent, or begin_trace of a
\* "general" one.  The trace id is held; no lock is.
RecordFind(agent_id, event_type, data, found) ==
    /\ rec.pc = "idle"
    /\ Len(entries) + 2 <= MaxEntries
    /\ found \in FoundChoices(active_traces, agent_id)
    /\ IF found # Nil
       THEN /\ rec' = [pc |-> "write", agent_id |-> agent_id,
                       event_type |-> event_type, data |-> data,
                       trace_id |-> found]
            /\ UNCHANGED <<active_traces, entries>>
       ELSE \E b \in {BeginTrace(Tracer, agent_id, "general", now)} :
               /\ rec' = [pc |-> "write", agent_id |-> agent_id,
                          event_type |-> event_type, data |-> data,
                          trace_id |-> b.trace_id]
               /\ active_traces' = b.active
               /\ entries' = b.entries
    /\ ret' = [op |-> "record_event.find", agent_id |-> agent_id]
    /\ now' = now

\* The rest of that call: the write lock, get_mut of the trace id held, the
\* entry and the new last_hash; the call returns.
RecordWrite ==
    /\ rec.pc = "write"
    /\ \E r \in {RecordEventIn(Tracer, rec.trace_id, rec.agent_id, rec.event_type,
                                rec.data, now)} :
          /\ active_traces' = r.active
          /\ entries' = r.entries
          /\ ret' = [op |-> "record_event", agent_id |-> rec.agent_id,
                     trace_id |-> rec.trace_id, result |-> r.result]
    /\ rec' = [pc |-> "idle"]
    /\ now' = now

(***************************************************************************)
(* Plugins: src/kernel/src/plugin.rs                                       *)
(***************************************************************************)

\* PluginCapabilities::default, with default_cpu_limit and
\* default_memory_limit.
DefaultCapabilities ==
    [state_access |-> FALSE, plugin_call |-> FALSE, external_access |-> FALSE,
     cpu_limit |-> 5, memory_limit |-> 50]

\* Plugin::new
PluginNew(id, capabilities, metadata, module) ==
    [id |-> id, capabilities |-> capabilities, metadata |-> metadata,
     module |-> module, loaded |-> TRUE]

\* Plugin::placeholder, with PluginMetadata::default
PluginPlaceholder(id) ==
    [id |-> id, capabilities |-> DefaultCapabilities,
     metadata |-> [name |-> "", version |-> "0.1.0"],
     module |-> Nil, loaded |-> FALSE]

\* The plugin directory: the ids with a {id}.wasm artifact, and the
\* capabilities their {id}.cap.yaml gives (no manifest: the defaults).
PluginDir == {"p1", "p2"}
CapManifest(id) ==
    IF id = "p2" THEN [DefaultCapabilities EXCEPT !.external_access = TRUE]
    ELSE DefaultCapabilities

\* What a compiled module's exported execute can do: return (the value is
\* the default one or the one set_result stored), or fail (a trap, a failing
\* host call).
ModuleOutcomes ==
    {[ok |-> TRUE, value |-> [status |-> "executed"]],
     [ok |-> FALSE, error |-> "module failed"]}

\* Plugin::execute: the two early returns, then the module's run.
PluginExecute(plugin, outcome) ==
    IF ~plugin.loaded THEN [ok |-> FALSE, error |-> "plugin is not loaded"]
    ELSE IF plugin.module = Nil THEN [ok |-> FALSE, error |-> "plugin has no module"]
    ELSE outcome

\* PluginManager::load_plugin: the cached handle, or the artifact compiled
\* and inserted into the cache.
LoadPlugin(cache, plugin_id) ==
    IF plugin_id \in DOMAIN cache
    THEN [cache |-> cache, plugin |-> cache[plugin_id], result |-> "Ok"]
    ELSE IF plugin_id \notin PluginDir
    THEN [cache |-> cache, plugin |-> Nil, result |-> "Err"]
    ELSE LET plugin == PluginNew(plugin_id, CapManifest(plugin_id),
                                 [name |-> plugin_id, version |-> "1.0.0"],
                                 [wasm |-> plugin_id])
         IN  [cache |-> MapPut(cache, plugin_id, plugin), plugin |-> plugin,
              result |-> "Ok"]

(***************************************************************************)
(* Agents: src/kernel/src/agent.rs                                         *)
(***************************************************************************)

\* HardwareConstraints::default
DefaultHardwareConstraints == [cpu |-> 10, ram |-> 100]

AgentConfig(name, entry, intents, metadata) ==
    [name |-> name, entry |-> entry, intents |-> intents,
     hm |-> DefaultHardwareConstraints, metadata |-> metadata]

\* The orders in which a HashMap with these keys can be iterated: every
\* arrangement of its entries (std's RandomState seeds each map apart).
IterationOrders(m) ==
    { o \in [1..Cardinality(DOMAIN m) -> DOMAIN m] :
        \A i, j \in DOMAIN o : i # j => o[i] # o[j] }

\* serde_json::to_string(config): the fields in declaration order, the
\* metadata map's entries in the order the map is iterated.
ConfigJson(config, order) ==
    [name |-> config.name, entry |-> config.entry, intents |-> config.intents,
     hm |-> config.hm,
     metadata |-> [i \in DOMAIN order |-> <<order[i], config.metadata[order[i]]>>]]

\* generate_agent_id: "agent_" and 16 hex digits of the BLAKE3 hash of the
\* serialized config; the hash is modelled by what it is computed from.
GenerateAgentId(config, order) == [agent |-> ConfigJson(config, order)]

\* Agent::new
AgentNew(id, config, t) ==
    [id |-> id, config |-> config, status |-> "Active", plugins |-> << >>,
     state |-> << >>, created_at |-> t, updated_at |-> t]

\* An attach_plugin that also stamps the agent as updated.
AgentAttachPluginStamps(agent, plugin_id) ==
    [agent EXCEPT !.plugins = MapPut(@, plugin_id, PluginPlaceholder(plugin_id)),
                  !.updated_at = @ + 1]

\* Agent::attach_plugin
AgentAttachPlugin(agent, plugin_id) ==
    [agent EXCEPT !.plugins = MapPut(@, plugin_id, PluginPlaceholder(plugin_id))]

SeqContains(seq, x) == \E i \in 1..Len(seq) : seq[i] = x

\* Agent::execute
AgentExecute(agent, intent, outcome) ==
    IF agent.status \notin {"Active", "Recovered"}
    THEN [ok |-> FALSE, error |-> "agent is not active"]
    ELSE IF ~SeqContains(agent.config.intents, intent)
    THEN [ok |-> FALSE, error |-> "intent not allowed"]
    ELSE IF agent.config.entry = None
    THEN [ok |-> FALSE, error |-> "no entry plugin defined"]
    ELSE IF agent.config.entry \notin DOMAIN agent.plugins
    THEN [ok |-> FALSE, error |-> "entry plugin not attached"]
    ELSE PluginExecute(agent.plugins[agent.config.entry], outcome)

(***************************************************************************)
(* Kernel: src/kernel/src/lib.rs.  A handler takes the kernel k (its       *)
(* registry, plugin cache, tree and tracer) and gives the kernel after the *)
(* call and the value returned.                                            *)
(***************************************************************************)

\* Bound of the kernel model: the length of the trace log.
MaxKernelEntries == 6

Kernel ==
    [agent_store |-> agent_store, plugin_cache |-> plugin_cache, nodes |-> nodes,
     active |-> active_traces, entries |-> entries]

TracerOf(k) == [active |-> k.active, entries |-> k.entries]

\* trace_engine.record_event(...).map_err(TraceError)? at the end of a handler
Traced(k, agent_id, event_type, data, t, found) ==
    LET r == RecordEvent(TracerOf(k), agent_id, event_type, data, t, found)
    IN  [k |-> [k EXCEPT !.active = r.active, !.entries = r.entries],
         result |-> IF r.result = "Ok" THEN "Ok" ELSE "TraceError"]

\* A spawn_agent that stores the agent before it asks the ethical engine.
SpawnAgentStoresFirst(k, config, order, t, found) ==
    LET agent_id == GenerateAgentId(config, order)
        agent == AgentNew(agent_id, config, t)
        k1 == [k EXCEPT !.agent_store = MapPut(@, agent_id, agent)]
    IN  IF ValidateSpawn(k.nodes, config) # "Ok"
        THEN [k |-> k1, result |-> "EthicalConstraintViolated"]
        ELSE Traced(k1, agent_id, "agent.spawn", [timestamp |-> t], t, found)

\* spawn_agent
SpawnAgentCall(k, config, order, t, found) ==
    LET agent_id == GenerateAgentId(config, order)
    IN  IF ValidateSpawn(k.nodes, config) # "Ok"
        THEN [k |-> k, result |-> "EthicalConstraintViolated"]
        ELSE LET agent == AgentNew(agent_id, config, t)
                 k1 == [k EXCEPT !.agent_store = MapPut(@, agent_id, agent)]
             IN  Traced(k1, agent_id, "agent.spawn", [timestamp |-> t], t, found)

\* attach_plugin
AttachPluginCall(k, agent_id, plugin_id, t, found) ==
    IF agent_id \notin DOMAIN k.agent_store
    THEN [k |-> k, result |-> "AgentNotFound"]
    ELSE LET load == LoadPlugin(k.plugin_cache, plugin_id)
             k1 == [k EXCEPT !.plugin_cache = load.cache]
         IN  IF load.result # "Ok"
             THEN [k |-> k1, result |-> "PluginNotFound"]
             ELSE IF ValidatePlugin(k.nodes, load.plugin) # "Ok"
             THEN [k |-> k1, result |-> "EthicalConstraintViolated"]
             ELSE LET k2 == [k1 EXCEPT !.agent_store[agent_id] =
                                          AgentAttachPlugin(@, plugin_id)]
                  IN  Traced(k2, agent_id, "agent.attach_plugin",
                             [plugin_id |-> plugin_id, timestamp |-> t], t, found)

\* execute.  The result also carries the trace the call began, if any, and
\* whether the plugin invocation succeeded.
ExecuteCall(k, agent_id, intent, outcome, t) ==
    IF agent_id \notin DOMAIN k.agent_store
    THEN [k |-> k, result |-> "AgentNotFound"]
    ELSE IF ValidateExecution(k.nodes, agent_id, intent) # "Ok"
    THEN [k |-> k, result |-> "EthicalConstraintViolated"]
    ELSE LET b == BeginTrace(TracerOf(k), agent_id, intent, t)
             res == AgentExecute(k.agent_store[agent_id], intent, outcome)
             e == EndTrace([active |-> b.active, entries |-> b.entries], b.trace_id,
                           res.ok,
                           IF res.ok THEN res.value ELSE [error |-> res.error], t)
         IN  [k |-> [k EXCEPT !.active = e.active, !.entries = e.entries],
              result |-> IF e.result # "Ok" THEN "TraceError"
                         ELSE IF res.ok THEN "Ok" ELSE "ExecutionError",
              trace_id |-> b.trace_id,
              invoked_ok |-> res.ok]

KernelInit ==
    /\ agent_store = << >>
    /\ plugin_cache = << >>
    /\ nodes = DefaultNodes

\* The callers' values in Spec.
Configs ==
    {AgentConfig("bot", "p1", <<"greet">>, [k1 |-> "v1", k2 |-> "v2"]),
     AgentConfig("Hackbot", "p1", <<"greet">>, << >>)}
Intents == {"greet", "harm", "Wipe"}
PluginIds == {"p1", "p9"}
GraftParents == {"root"}
GraftRuleIds == {"custom"}
GraftDecisions == {"Allow", "Deny"}

\* The agent ids a caller can hold: those of the registry.
KnownAgentIds == DOMAIN agent_store

\* The kernel after a call becomes the state, within the log's bound.
Becomes(k) ==
    /\ Len(k.entries) <= MaxKernelEntries
    /\ agent_store' = k.agent_store
    /\ plugin_cache' = k.plugin_cache
    /\ nodes' = k.nodes
    /\ active_traces' = k.active
    /\ entries' = k.entries
    /\ now' = now

SpawnAgent(config, order, found) ==
    /\ \E r \in {SpawnAgentCall(Kernel, config, order, now, found)} :
           /\ Becomes(r.k)
           /\ ret' = [op |-> "spawn_agent", name |-> config.name,
                      agent_id |-> GenerateAgentId(config, order),
                      result |-> r.result]

AttachPlugin(agent_id, plugin_id, found) ==
    /\ \E r \in {AttachPluginCall(Kernel, agent_id, plugin_id, now, found)} :
           /\ Becomes(r.k)
           /\ ret' = [op |-> "attach_plugin", agent_id |-> agent_id,
                      plugin_id |-> plugin_id, result |-> r.result]

Execute(agent_id, intent, outcome) ==
    \E r \in {ExecuteCall(Kernel, agent_id, intent, outcome, now)} :
        /\ Becomes(r.k)
        /\ ret' = IF "trace_id" \in DOMAIN r
                  THEN [op |-> "execute", agent_id |-> agent_id, intent |-> intent,
                        result |-> r.result, trace_id |-> r.trace_id,
                        invoked_ok |-> r.invoked_ok]
                  ELSE [op |-> "execute", agent_id |-> agent_id, intent |-> intent,
                        result |-> r.result]

\* EthicalBinaryTree::add_rule on the kernel's tree.
AddRule(parent_id, rule_id, rule, decision) ==
    /\ IF parent_id \notin DOMAIN nodes
       THEN /\ nodes' = nodes
            /\ ret' = [op |-> "add_rule", result |-> "Err"]
       ELSE /\ nodes' = AddRuleNodes(nodes, parent_id, rule_id, rule, decision)
            /\ ret' = [op |-> "add_rule", result |-> "Ok"]
    /\ UNCHANGED <<agent_store, plugin_cache, active_traces, entries, now>>

\* evaluate called on the tree.
TreeEvaluate(context, data) ==
    /\ ret' = [op |-> "evaluate", context |-> context, data |-> data,
               result |-> Evaluate(nodes, context, data)]
    /\ UNCHANGED <<nodes, agent_store, plugin_cache, active_traces, entries, now>>

\* evaluate_rule applied to a rule name, as evaluate applies it to node.rule.
TreeEvaluateRule(rule, context, data) ==
    /\ ret' = [op |-> "evaluate_rule", rule |-> rule, context |-> context,
               data |-> data, result |-> EvaluateRule(rule, context, data)]
    /\ UNCHANGED <<nodes, agent_store, plugin_cache, active_traces, entries, now>>

\* The contexts and payloads the validate_* functions call evaluate with.
EvalInputs ==
    { <<"agent_spawn", [name |-> "bot", intents |-> i]>> : i \in {<<"greet">>, <<"harm">>} }
    \cup { <<"plugin_validation",
             [id |-> "p1", risk_level |-> RiskLevel(cap),
              external_access |-> cap.external_access,
              plugin_call |-> cap.plugin_call]>> :
            cap \in {DefaultCapabilities,
                     [DefaultCapabilities EXCEPT !.external_access = TRUE]} }
    \cup { <<"execution_validation", [agent_id |-> "a1", intent |-> "greet"]>> }

(***************************************************************************)
(* Storage: src/kernel/src/storage.rs, and the kernel's recover, snapshot  *)
(* and Drop.  storage is the process-wide handle (initialized or not) and  *)
(* the agent.json files by agent id; a file is the blob last written and   *)
(* how much of it is on disk ("all" once fs::write has returned).          *)
(***************************************************************************)

\* serde_json::to_string(agent): plugins is #[serde(skip)]; the config is
\* written as ConfigJson writes it, metadata in the map's iteration order.
SerializeAgent(agent, order) ==
    [id |-> agent.id, config |-> ConfigJson(agent.config, order),
     status |-> agent.status, state |-> agent.state,
     created_at |-> agent.created_at, updated_at |-> agent.updated_at]

\* The metadata map read back from its serialized entries.
MetadataOf(pairs) ==
    [key \in { pairs[i][1] : i \in DOMAIN pairs } |->
        pairs[CHOOSE i \in DOMAIN pairs : pairs[i][1] = key][2]]

\* serde_json::from_str::<Agent>(blob): every field from the text, plugins
\* from Default (an empty map).
DeserializeAgent(blob) ==
    [id |-> blob.id,
     config |-> [name |-> blob.config.name, entry |-> blob.config.entry,
                 intents |-> blob.config.intents, hm |-> blob.config.hm,
                 metadata |-> MetadataOf(blob.config.metadata)],
     status |-> blob.status, plugins |-> << >>, state |-> blob.state,
     created_at |-> blob.created_at, updated_at |-> blob.updated_at]

\* storage::save_agent with no reader in between: "Storage not initialized"
\* without a handle, else the file holds the whole new blob.
SaveAgent(st, agent_id, agent, order) ==
    IF ~st.initialized THEN [storage |-> st, result |-> "Err"]
    ELSE [storage |-> [st EXCEPT !.files =
                          MapPut(@, agent_id,
                                 [blob |-> SerializeAgent(agent, order),
                                  written |-> "all"])],
          result |-> "Ok"]

\* A load_agent that answers a miss with an agent made on the spot.
LoadAgentOrDefault(st, agent_id) ==
    IF st.initialized /\ agent_id \in DOMAIN st.files
          /\ st.files[agent_id].written = "all"
    THEN [agent |-> DeserializeAgent(st.files[agent_id].blob), result |-> "Ok"]
    ELSE [agent |-> AgentNew(agent_id, AgentConfig("", None, << >>, << >>), 0),
          result |-> "Ok"]

\* storage::load_agent: no handle, no file, a text that does not parse (an
\* empty or cut-off file), or the agent.
LoadAgent(st, agent_id) ==
    IF ~st.initialized
    THEN [agent |-> Nil, result |-> "Err", error |-> "Storage not initialized"]
    ELSE IF agent_id \notin DOMAIN st.files
    THEN [agent |-> Nil, result |-> "Err", error |-> "Agent not found in storage"]
    ELSE IF st.files[agent_id].written # "all"
    THEN [agent |-> Nil, result |-> "Err", error |-> "Failed to deserialize agent"]
    ELSE [agent |-> DeserializeAgent(st.files[agent_id].blob), result |-> "Ok"]

\* snapshot
SnapshotCall(k, st, agent_id, order, t, found) ==
    IF agent_id \notin DOMAIN k.agent_store
    THEN [k |-> k, storage |-> st, result |-> "AgentNotFound"]
    ELSE LET save == SaveAgent(st, agent_id, k.agent_store[agent_id], order)
         IN  IF save.result # "Ok"
             THEN [k |-> k, storage |-> st, result |-> "StorageError"]
             ELSE LET tr == Traced(k, agent_id, "agent.snapshot",
                                   [timestamp |-> t], t, found)
                  IN  [k |-> tr.k, storage |-> save.storage, result |-> tr.result]

\* A recover that goes to storage whether or not the registry has the agent.
RecoverAlwaysLoads(k, st, agent_id, t, found) ==
    LET load == LoadAgent(st, agent_id)
    IN  IF load.result # "Ok"
        THEN [k |-> k, result |-> "StorageError", loaded |-> TRUE]
        ELSE LET k1 == [k EXCEPT !.agent_store = MapPut(@, agent_id, load.agent)]
                 tr == Traced(k1, agent_id, "agent.recover",
                              [timestamp |-> t, status |-> "success"], t, found)
             IN  [k |-> tr.k,
                  result |-> IF tr.result = "Ok" THEN "Recovered" ELSE tr.result,
                  loaded |-> TRUE]

\* recover
RecoverCall(k, st, agent_id, t, found) ==
    IF agent_id \in DOMAIN k.agent_store
    THEN [k |-> k, result |-> "Active", loaded |-> FALSE]
    ELSE LET load == LoadAgent(st, agent_id)
         IN  IF load.result # "Ok"
             THEN [k |-> k, result |-> "StorageError", loaded |-> TRUE]
             ELSE IF ValidateRecovery(k.nodes, agent_id) # "Ok"
             THEN [k |-> k, result |-> "EthicalConstraintViolated", loaded |-> TRUE]
             ELSE LET k1 == [k EXCEPT !.agent_store =
                                         MapPut(@, agent_id, load.agent)]
                      tr == Traced(k1, agent_id, "agent.recover",
                                   [timestamp |-> t, status |-> "success"], t,
                                   found)
                  IN  [k |-> tr.k,
                       result |-> IF tr.result = "Ok" THEN "Recovered"
                                  ELSE tr.result,
                       loaded |-> TRUE]

StoreInit ==
    /\ storage = [initialized |-> FALSE, files |-> << >>]
    /\ saved = << >>

\* storage::init_storage: the handle is published; the files stay.
InitStorage ==
    /\ storage' = [storage EXCEPT !.initialized = TRUE]
    /\ ret' = [op |-> "init_storage", result |-> "Ok"]
    /\ UNCHANGED <<saved, now, active_traces, entries, kernelVars>>

Snapshot(agent_id, order, found) ==
    \E r \in {SnapshotCall(Kernel, storage, agent_id, order, now, found)} :
        /\ Becomes(r.k)
        /\ storage' = r.storage
        /\ saved' = IF agent_id \in DOMAIN agent_store
                    THEN MapPut(saved, agent_id, agent_store[agent_id])
                    ELSE saved
        /\ ret' = [op |-> "snapshot", agent_id |-> agent_id, result |-> r.result]

Recover(agent_id, found) ==
    \E r \in {RecoverCall(Kernel, storage, agent_id, now, found)} :
        /\ Becomes(r.k)
        /\ ret' = [op |-> "recover", agent_id |-> agent_id, result |-> r.result,
                   loaded |-> r.loaded]
        /\ UNCHANGED <<storage, saved>>

\* A Drop that gives up at the first save_agent that fails.
RECURSIVE DropSavesStopsAtFailure(_, _, _, _)
DropSavesStopsAtFailure(st, store, ids, orderOf) ==
    IF ids = {} THEN [storage |-> st, attempted |-> {}, failed |-> {}]
    ELSE LET id == CHOOSE x \in ids : TRUE
             save == SaveAgent(st, id, store[id], orderOf[id])
         IN  IF save.result # "Ok"
             THEN [storage |-> save.storage, attempted |-> {id}, failed |-> {id}]
             ELSE LET rest == DropSavesStopsAtFailure(save.storage, store,
                                                      ids \ {id}, orderOf)
                  IN  [rest EXCEPT !.attempted = @ \cup {id}]

\* Drop for MCPKernel: save_agent for every agent of the registry, failures
\* logged only.  orderOf gives the order each agent's metadata is written in.
\* The result is the storage afterwards, the ids save_agent was called for
\* and those it failed for.
RECURSIVE DropSaves(_, _, _, _)
DropSaves(st, store, ids, orderOf) ==
    IF ids = {} THEN [storage |-> st, attempted |-> {}, failed |-> {}]
    ELSE LET id == CHOOSE x \in ids : TRUE
             save == SaveAgent(st, id, store[id], orderOf[id])
             rest == DropSaves(save.storage, store, ids \ {id}, orderOf)
         IN  [rest EXCEPT !.attempted = @ \cup {id},
                          !.failed = IF save.result # "Ok" THEN @ \cup {id} ELSE @]

\* The orders the agents of a registry can be written in.
OrderChoices(store) ==
    { f \in [DOMAIN store ->
                UNION { IterationOrders(store[a].config.metadata) :
                          a \in DOMAIN store }] :
        \A a \in DOMAIN store : f[a] \in IterationOrders(store[a].config.metadata) }

\* The kernel is dropped and MCPKernel::new builds the next one: in the same
\* process, where the storage handle stays, or in a new process, where
\* STORAGE is None again.  The files outlive both.
DropAndNew(orderOf, same_process) ==
    /\ \E d \in {DropSaves(storage, agent_store, DOMAIN agent_store, orderOf)} :
           /\ storage' = [d.storage EXCEPT !.initialized = same_process /\ @]
           /\ saved' = [id \in (DOMAIN saved) \cup d.attempted |->
                          IF id \in d.attempted THEN agent_store[id]
                          ELSE saved[id]]
           /\ ret' = [op |-> "drop", attempted |-> d.attempted,
                      failed |-> d.failed]
    /\ agent_store' = << >>
    /\ plugin_cache' = << >>
    /\ nodes' = DefaultNodes
    /\ active_traces' = << >>
    /\ entries' = << >>
    /\ now' = now

\* The callers' values in SpecStore: the ids known, and one never spawned.
StoreConfigs ==
    {AgentConfig("bot", "p1", <<"greet">>, [k1 |-> "v1"]),
     AgentConfig("bot", "p1", <<"greet">>, << >>)}
UnknownAgentId == GenerateAgentId(AgentConfig("bot", None, <<"greet">>, << >>), << >>)
StoreAgentIds == KnownAgentIds \cup (DOMAIN storage.files) \cup {UnknownAgentId}

StoreNext ==
    \/ Tick /\ UNCHANGED <<hmVars, kernelVars, storeVars, restVars>>
    \/ InitStorage /\ UNCHANGED <<hmVars, restVars>>
    \/ \E c \in StoreConfigs :
          \E o \in IterationOrders(c.metadata) :
             \E f \in FoundChoices(active_traces, GenerateAgentId(c, o)) :
                SpawnAgent(c, o, f) /\ UNCHANGED <<hmVars, storeVars, restVars>>
    \/ \E a \in StoreAgentIds :
          \E o \in IF a \in DOMAIN agent_store
                   THEN IterationOrders(agent_store[a].config.metadata)
                   ELSE {<< >>} :
             \E f \in FoundChoices(active_traces, a) :
                Snapshot(a, o, f) /\ UNCHANGED <<hmVars, restVars>>
    \/ \E a \in StoreAgentIds :
          \E f \in FoundChoices(active_traces, a) :
             Recover(a, f) /\ UNCHANGED <<hmVars, restVars>>
    \/ \E o \in OrderChoices(agent_store), same_process \in BOOLEAN :
          DropAndNew(o, same_process) /\ UNCHANGED <<hmVars, restVars>>

\* save_agent up to fs::write's open of agent.json: the directory is made
\* and the file is created or truncated, empty and about to hold the new
\* text.
SaveOpen(agent_id, agent, order) ==
    /\ storage.initialized
    /\ agent_id \in DOMAIN storage.files => storage.files[agent_id].written = "all"
    /\ storage' = [storage EXCEPT !.files =
                      MapPut(@, agent_id, [blob |-> SerializeAgent(agent, order),
                                           written |-> "none"])]
    /\ saved' = MapPut(saved, agent_id, agent)
    /\ ret' = [op |-> "save_agent", agent_id |-> agent_id, at |-> "open"]
    /\ UNCHANGED <<now, active_traces, entries, kernelVars>>

\* fs::write's write_all: some more of the text, or the rest of it, reaches
\* the file; with the rest save_agent returns.
SaveWrite(agent_id, upto) ==
    /\ agent_id \in DOMAIN storage.files
    /\ storage.files[agent_id].written # "all"
    /\ upto = "part" => storage.files[agent_id].written = "none"
    /\ storage' = [storage EXCEPT !.files[agent_id].written = upto]
    /\ ret' = [op |-> "save_agent", agent_id |-> agent_id, at |-> upto]
    /\ UNCHANGED <<saved, now, active_traces, entries, kernelVars>>

\* storage::load_agent on a reader's thread.
Load(agent_id) ==
    /\ \E r \in {LoadAgent(storage, agent_id)} :
          ret' = IF r.result = "Ok"
                 THEN [op |-> "load_agent", agent_id |-> agent_id,
                       result |-> "Ok", agent |-> r.agent]
                 ELSE [op |-> "load_agent", agent_id |-> agent_id,
                       result |-> "Err", error |-> r.error]
    /\ UNCHANGED <<storage, saved, now, active_traces, entries, kernelVars>>

\* The callers' values in SpecStoreConc.
ConcStoreConfigs ==
    {AgentConfig("bot", "p1", <<"greet">>, [k1 |-> "v1"]),
     AgentConfig("bot", None, <<"greet">>, << >>)}
ConcStoreInputs ==
    UNION { { AgentNew(GenerateAgentId(c, o), c, t) :
                o \in IterationOrders(c.metadata), t \in 0..MaxTime } :
            c \in ConcStoreConfigs }

StoreConcNext ==
    \/ InitStorage /\ UNCHANGED <<hmVars, restVars>>
    \/ \E a \in ConcStoreInputs :
          \E o \in IterationOrders(a.config.metadata) :
             SaveOpen(a.id, a, o) /\ UNCHANGED <<hmVars, restVars>>
    \/ \E a \in ConcStoreInputs, upto \in {"part", "all"} :
          SaveWrite(a.id, upto) /\ UNCHANGED <<hmVars, restVars>>
    \/ \E a \in ConcStoreInputs : Load(a.id) /\ UNCHANGED <<hmVars, restVars>>

(***************************************************************************)
(* Calls in flight on several threads: src/kernel/src/lib.rs and           *)
(* src/kernel/src/plugin.rs.  calls[t] is where thread t stands in the     *)
(* call it is making, and what that call holds.                            *)
(***************************************************************************)

NumKernelThreads == 2
KernelThreads == 1..NumKernelThreads

\* compiled counts the modules the thread has compiled so far: a compiled
\* Module is told from another one of the same artifact by who compiled it
\* and when.
CallsInit == calls = [t \in KernelThreads |-> [pc |-> "idle", compiled |-> 0]]

\* A load_plugin that compiles the artifact whether or not the id is cached.
LoadPluginLookupRecompiles(t, plugin_id) ==
    /\ calls[t].pc = "idle"
    /\ IF plugin_id \notin PluginDir
       THEN /\ ret' = [op |-> "load_plugin", step |-> "lookup", thread |-> t,
                       plugin_id |-> plugin_id, result |-> "Err", plugin |-> Nil]
            /\ calls' = calls
       ELSE /\ calls' = [calls EXCEPT ![t] =
                           [pc |-> "insert", compiled |-> @.compiled + 1,
                            plugin |-> PluginNew(plugin_id, CapManifest(plugin_id),
                                                 [name |-> plugin_id,
                                                  version |-> "1.0.0"],
                                                 [wasm |-> plugin_id, thread |-> t,
                                                  nth |-> @.compiled + 1])]]
            /\ ret' = [op |-> "load_plugin", step |-> "compiled", thread |-> t,
                       plugin_id |-> plugin_id]
    /\ UNCHANGED <<plugin_cache, agent_store, nodes, active_traces, entries, now>>

\* load_plugin up to the point where it asks for the write lock: the lookup
\* under the read lock, and on a miss the exists() test, the manifest and
\* Module::from_file.
LoadPluginLookup(t, plugin_id) ==
    /\ calls[t].pc = "idle"
    /\ IF plugin_id \in DOMAIN plugin_cache
       THEN /\ ret' = [op |-> "load_plugin", step |-> "lookup", thread |-> t,
                       plugin_id |-> plugin_id, result |-> "Ok",
                       plugin |-> plugin_cache[plugin_id]]
            /\ calls' = calls
       ELSE IF plugin_id \notin PluginDir
       THEN /\ ret' = [op |-> "load_plugin", step |-> "lookup", thread |-> t,
                       plugin_id |-> plugin_id, result |-> "Err", plugin |-> Nil]
            /\ calls' = calls
       ELSE /\ calls' = [calls EXCEPT ![t] =
                           [pc |-> "insert", compiled |-> @.compiled + 1,
                            plugin |-> PluginNew(plugin_id, CapManifest(plugin_id),
                                                 [name |-> plugin_id,
                                                  version |-> "1.0.0"],
                                                 [wasm |-> plugin_id, thread |-> t,
                                                  nth |-> @.compiled + 1])]]
            /\ ret' = [op |-> "load_plugin", step |-> "compiled", thread |-> t,
                       plugin_id |-> plugin_id]
    /\ UNCHANGED <<plugin_cache, agent_store, nodes, active_traces, entries, now>>

\* The rest of load_plugin, under the write lock: the insert, and Ok(plugin)
\* with the handle this call built.
LoadPluginInsert(t) ==
    /\ calls[t].pc = "insert"
    /\ plugin_cache' = MapPut(plugin_cache, calls[t].plugin.id, calls[t].plugin)
    /\ ret' = [op |-> "load_plugin", step |-> "insert", thread |-> t,
               plugin_id |-> calls[t].plugin.id, result |-> "Ok",
               plugin |-> calls[t].plugin]
    /\ calls' = [calls EXCEPT ![t] = [pc |-> "idle", compiled |-> @.compiled]]
    /\ UNCHANGED <<agent_store, nodes, active_traces, entries, now>>

(***************************************************************************)
(* Plugin invocation: Plugin::execute and the host functions,              *)
(* src/kernel/src/plugin.rs.  A u32 is kept as its two 16-bit halves; a    *)
(* module's memory is one page, known by the bytes that are not zero; the  *)
(* body of a module's execute is the sequence of host calls it makes.      *)
(***************************************************************************)

U32(hi, lo) == [hi |-> hi, lo |-> lo]

\* a + b on u32: whether it overflows, and the wrapped sum.
AddU32(a, b) ==
    LET lo == a.lo + b.lo
        hi == a.hi + b.hi + (lo \div 65536)
    IN  [overflow |-> hi >= 65536, value |-> U32(hi % 65536, lo % 65536)]

\* The data segment of the module: "7" at address 0, "{}" at 1, "x" at 3.
ModuleData == (0 :> "7") @@ (1 :> "{") @@ (2 :> "}") @@ (3 :> "x")

\* <[u8]>::get(start..end) on the memory: None for start > end or for an end
\* past the page; a slice of more than eight bytes is not spelled out (it
\* holds a zero byte: at most four bytes of the page are set).
SliceGet(memory, start, end) ==
    IF \/ start.hi > end.hi
       \/ (start.hi = end.hi /\ start.lo > end.lo)
       \/ end.hi > 1
       \/ (end.hi = 1 /\ end.lo > 0)
    THEN Nil
    ELSE LET first == start.hi * 65536 + start.lo
             n == (end.hi * 65536 + end.lo) - first
         IN  IF n > 8 THEN [long |-> TRUE]
             ELSE [long |-> FALSE,
                   bytes |-> [k \in 1..n |->
                                IF first + k - 1 \in DOMAIN memory
                                THEN memory[first + k - 1] ELSE "NUL"]]

\* serde_json::from_slice on such a slice: "{}" is the empty object, a run
\* of the digit 7 is a number, everything else over these bytes is an error.
FromSlice(slice) ==
    IF slice.long THEN [ok |-> FALSE]
    ELSE IF slice.bytes = <<"{", "}">> THEN [ok |-> TRUE, json |-> [object |-> << >>]]
    ELSE IF Len(slice.bytes) >= 1 /\ \A k \in 1..Len(slice.bytes) : slice.bytes[k] = "7"
    THEN [ok |-> TRUE, json |-> [number |-> slice.bytes]]
    ELSE [ok |-> FALSE]

\* The host function set_result on a call's store (PluginState and memory).
\* overflow_checks is the build's setting for ptr + len.
SetResult(st, ptr, len, overflow_checks) ==
    LET end == AddU32(ptr, len)
        data == SliceGet(st.memory, ptr, end.value)
    IN  IF end.overflow /\ overflow_checks
        THEN [outcome |-> "Panic", message |-> "attempt to add with overflow", st |-> st]
        ELSE IF data = Nil
        THEN [outcome |-> "Err", message |-> "Invalid memory range", st |-> st]
        ELSE IF ~FromSlice(data).ok
        THEN [outcome |-> "Err", message |-> "Failed to parse result as JSON", st |-> st]
        ELSE [outcome |-> "Ok", st |-> [st EXCEPT !.result = FromSlice(data).json]]

\* The host function get_intent: the intent's bytes copied to ptr.
GetIntent(st, ptr, overflow_checks) ==
    LET len == Len(st.intent)
        end == AddU32(ptr, U32(0, len))
        slice == SliceGet(st.memory, ptr, end.value)
        first == ptr.hi * 65536 + ptr.lo
    IN  IF end.overflow /\ overflow_checks
        THEN [outcome |-> "Panic", message |-> "attempt to add with overflow", st |-> st]
        ELSE IF slice = Nil
        THEN [outcome |-> "Err", message |-> "Invalid memory range", st |-> st]
        ELSE [outcome |-> "Ok",
              st |-> [st EXCEPT !.memory =
                         [a \in (DOMAIN st.memory) \cup {first + k - 1 : k \in 1..len} |->
                            IF a >= first /\ a < first + len
                            THEN st.intent[a - first + 1] ELSE st.memory[a]]]]

\* One host call of the module's execute.
HostCall(st, call, overflow_checks) ==
    IF call.fn = "set_result" THEN SetResult(st, call.ptr, call.len, overflow_checks)
    ELSE GetIntent(st, call.ptr, overflow_checks)

\* A host call that works on the store of the plugin's first invocation in
\* flight, whichever invocation makes the call.
PluginExecuteHostCallShared(t) ==
    /\ calls[t].pc = "run"
    /\ calls[t].todo # << >>
    /\ LET u == CHOOSE x \in KernelThreads : calls[x].pc = "run"
           r == HostCall(calls[u].st, Head(calls[t].todo), calls[t].overflow_checks)
       IN  IF r.outcome = "Ok"
           THEN /\ calls' = [x \in KernelThreads |->
                               IF x = t /\ x = u
                               THEN [calls[x] EXCEPT !.st = r.st, !.todo = Tail(@)]
                               ELSE IF x = t THEN [calls[x] EXCEPT !.todo = Tail(@)]
                               ELSE IF x = u THEN [calls[x] EXCEPT !.st = r.st]
                               ELSE calls[x]]
                /\ ret' = [op |-> "host_call", thread |-> t, fn |-> Head(calls[t].todo).fn]
           ELSE /\ calls' = [calls EXCEPT ![t] = [pc |-> "idle", compiled |-> @.compiled]]
                /\ ret' = [op |-> "plugin_execute", thread |-> t, ran |-> TRUE,
                           result |-> IF r.outcome = "Err"
                                      THEN [outcome |-> "Err", error |-> "ExecutionError",
                                            message |-> r.message]
                                      ELSE [outcome |-> "Panic", message |-> r.message]]
    /\ UNCHANGED <<plugin_cache, agent_store, nodes, active_traces, entries, now>>

\* Plugin::execute up to the call of the module's execute: the two early
\* returns, then the Store with a new PluginState (the agent's state map
\* cloned) and the instance with its own memory.
PluginExecuteBegin(t, plugin, agent_id, intent, script, overflow_checks) ==
    /\ calls[t].pc = "idle"
    /\ agent_id \in DOMAIN agent_store
    /\ LET early == PluginExecute(plugin, Nil)
       IN  IF early # Nil
           THEN /\ calls' = calls
                /\ ret' = [op |-> "plugin_execute", thread |-> t, ran |-> FALSE,
                           result |-> [outcome |-> "Err", error |-> "ExecutionError",
                                       message |-> early.error]]
           ELSE /\ calls' = [calls EXCEPT ![t] =
                               [pc |-> "run", compiled |-> @.compiled,
                                st |-> [agent_id |-> agent_id, intent |-> intent,
                                        state |-> agent_store[agent_id].state,
                                        result |-> Nil, memory |-> ModuleData],
                                script |-> script, todo |-> script,
                                overflow_checks |-> overflow_checks]]
                /\ ret' = [op |-> "plugin_execute_begin", thread |-> t]
    /\ UNCHANGED <<plugin_cache, agent_store, nodes, active_traces, entries, now>>

\* The module's execute makes its next host call: Ok lets it go on, an Err
\* is a trap that execute.call returns through `?`, a panic unwinds.
PluginExecuteHostCall(t) ==
    /\ calls[t].pc = "run"
    /\ calls[t].todo # << >>
    /\ LET r == HostCall(calls[t].st, Head(calls[t].todo), calls[t].overflow_checks)
       IN  IF r.outcome = "Ok"
           THEN /\ calls' = [calls EXCEPT ![t].st = r.st, ![t].todo = Tail(@)]
                /\ ret' = [op |-> "host_call", thread |-> t, fn |-> Head(calls[t].todo).fn]
           ELSE /\ calls' = [calls EXCEPT ![t] = [pc |-> "idle", compiled |-> @.compiled]]
                /\ ret' = [op |-> "plugin_execute", thread |-> t, ran |-> TRUE,
                           result |-> IF r.outcome = "Err"
                                      THEN [outcome |-> "Err", error |-> "ExecutionError",
                                            message |-> r.message]
                                      ELSE [outcome |-> "Panic", message |-> r.message]]
    /\ UNCHANGED <<plugin_cache, agent_store, nodes, active_traces, entries, now>>

\* The module's execute returns: the result stored in this call's
\* PluginState, or the default value.
PluginExecuteReturn(t) ==
    /\ calls[t].pc = "run"
    /\ calls[t].todo = << >>
    /\ calls' = [calls EXCEPT ![t] = [pc |-> "idle", compiled |-> @.compiled]]
    /\ ret' = [op |-> "plugin_execute", thread |-> t, ran |-> TRUE,
               result |-> [outcome |-> "Ok",
                           value |-> IF calls[t].st.result = Nil
                                     THEN [object |-> [status |-> "executed",
                                                       result |-> "null"]]
                                     ELSE calls[t].st.result]]
    /\ UNCHANGED <<plugin_cache, agent_store, nodes, active_traces, entries, now>>

\* recover up to its contains_key test: Ok(Active) when the registry has
\* the id, otherwise the call goes on to storage.
RecoverCheck(t, agent_id) ==
    /\ calls[t].pc = "idle"
    /\ IF agent_id \in DOMAIN agent_store
       THEN /\ calls' = calls
            /\ ret' = [op |-> "recover", thread |-> t, agent_id |-> agent_id,
                       result |-> "Active"]
       ELSE /\ calls' = [calls EXCEPT ![t] = [pc |-> "recover", compiled |-> @.compiled,
                                              agent_id |-> agent_id]]
            /\ ret' = [op |-> "recover_checked", thread |-> t, agent_id |-> agent_id]
    /\ UNCHANGED <<agent_store, plugin_cache, nodes, active_traces, entries, now,
                   storage, saved>>

\* The rest of recover: load_agent, validate_recovery, the insert into the
\* registry and the "agent.recover" event.
RecoverInsert(t, found) ==
    /\ calls[t].pc = "recover"
    /\ LET agent_id == calls[t].agent_id
           load == LoadAgent(storage, agent_id)
       IN  IF load.result # "Ok"
           THEN /\ ret' = [op |-> "recover", thread |-> t, agent_id |-> agent_id,
                           result |-> "StorageError"]
                /\ UNCHANGED <<agent_store, plugin_cache, nodes, active_traces,
                               entries, now>>
           ELSE IF ValidateRecovery(nodes, agent_id) # "Ok"
           THEN /\ ret' = [op |-> "recover", thread |-> t, agent_id |-> agent_id,
                           result |-> "EthicalConstraintViolated"]
                /\ UNCHANGED <<agent_store, plugin_cache, nodes, active_traces,
                               entries, now>>
           ELSE \E tr \in {Traced([Kernel EXCEPT !.agent_store =
                                                   MapPut(@, agent_id, load.agent)],
                                  agent_id, "agent.recover",
                                  [timestamp |-> now, status |-> "success"], now,
                                  found)} :
                   /\ Becomes(tr.k)
                   /\ ret' = [op |-> "recover", thread |-> t, agent_id |-> agent_id,
                              result |-> IF tr.result = "Ok" THEN "Recovered"
                                         ELSE tr.result]
    /\ calls' = [calls EXCEPT ![t] = [pc |-> "idle", compiled |-> @.compiled]]
    /\ UNCHANGED <<storage, saved>>

\* The locks of a kernel call whose record_event keeps its read guard on
\* the active traces while it calls begin_trace.
LockProgramKeepsReadGuard(op, found) ==
    LET Acq(l, m) == [do |-> "acquire", lock |-> l, mode |-> m]
        Rel(l) == [do |-> "release", lock |-> l]
        Evaluate_ == <<Acq("nodes", "read"), Rel("nodes")>>
        StoreEntry == <<Acq("entries", "write"), Rel("entries")>>
        BeginTrace_ == <<Acq("active_traces", "write")>> \o StoreEntry
                          \o <<Rel("active_traces")>>
        EndTrace_ == <<Acq("active_traces", "write")>> \o StoreEntry
                        \o <<Rel("active_traces")>>
        RecordEvent_ ==
            IF found
            THEN <<Acq("active_traces", "read"), Rel("active_traces")>>
                    \o <<Acq("active_traces", "write")>> \o StoreEntry
                    \o <<Rel("active_traces")>>
            ELSE <<Acq("active_traces", "read")>>
                    \o BeginTrace_ \o <<Rel("active_traces")>>
                    \o <<Acq("active_traces", "write")>> \o StoreEntry
                    \o <<Rel("active_traces")>>
        LoadPlugin_ == <<Acq("plugin_cache", "read"), Rel("plugin_cache"),
                         Acq("plugin_cache", "write"), Rel("plugin_cache")>>
    IN  CASE op = "spawn_agent" ->
                Evaluate_ \o <<Acq("registry", "write"), Rel("registry")>>
                   \o RecordEvent_
          [] op = "attach_plugin" ->
                <<Acq("registry", "read")>> \o LoadPlugin_ \o Evaluate_
                   \o <<Acq("agent_plugins", "write"), Rel("agent_plugins")>>
                   \o RecordEvent_ \o <<Rel("registry")>>
          [] op = "execute" ->
                <<Acq("registry", "read")>> \o Evaluate_ \o BeginTrace_
                   \o <<Acq("agent_plugins", "read"), Rel("agent_plugins")>>
                   \o EndTrace_ \o <<Rel("registry")>>
          [] op = "recover" ->
                <<Acq("registry", "read"), Rel("registry"),
                  Acq("registry", "write"), Rel("registry")>> \o RecordEvent_
          [] op = "snapshot" ->
                <<Acq("registry", "read")>> \o RecordEvent_ \o <<Rel("registry")>>

\* The locks a kernel call takes and gives back, in the order of its code:
\* the registry shard of the agent (a Ref from get is a read lock held until
\* the Ref is dropped, insert and contains_key lock for their own duration),
\* the tree's nodes, the plugin cache (on a miss), the agent's plugin map,
\* the active traces and the entries.  found says whether record_event finds
\* an active trace of the agent or begins one (after dropping its read
\* guard).
LockProgram(op, found) ==
    LET Acq(l, m) == [do |-> "acquire", lock |-> l, mode |-> m]
        Rel(l) == [do |-> "release", lock |-> l]
        Evaluate_ == <<Acq("nodes", "read"), Rel("nodes")>>
        StoreEntry == <<Acq("entries", "write"), Rel("entries")>>
        BeginTrace_ == <<Acq("active_traces", "write")>> \o StoreEntry
                          \o <<Rel("active_traces")>>
        EndTrace_ == <<Acq("active_traces", "write")>> \o StoreEntry
                        \o <<Rel("active_traces")>>
        RecordEvent_ ==
            IF found
            THEN <<Acq("active_traces", "read"), Rel("active_traces")>>
                    \o <<Acq("active_traces", "write")>> \o StoreEntry
                    \o <<Rel("active_traces")>>
            ELSE <<Acq("active_traces", "read"), Rel("active_traces")>>
                    \o BeginTrace_
                    \o <<Acq("active_traces", "write")>> \o StoreEntry
                    \o <<Rel("active_traces")>>
        LoadPlugin_ == <<Acq("plugin_cache", "read"), Rel("plugin_cache"),
                         Acq("plugin_cache", "write"), Rel("plugin_cache")>>
    IN  CASE op = "spawn_agent" ->
                Evaluate_ \o <<Acq("registry", "write"), Rel("registry")>>
                   \o RecordEvent_
          [] op = "attach_plugin" ->
                <<Acq("registry", "read")>> \o LoadPlugin_ \o Evaluate_
                   \o <<Acq("agent_plugins", "write"), Rel("agent_plugins")>>
                   \o RecordEvent_ \o <<Rel("registry")>>
          [] op = "execute" ->
                <<Acq("registry", "read")>> \o Evaluate_ \o BeginTrace_
                   \o <<Acq("agent_plugins", "read"), Rel("agent_plugins")>>
                   \o EndTrace_ \o <<Rel("registry")>>
          [] op = "recover" ->
                <<Acq("registry", "read"), Rel("registry"),
                  Acq("registry", "write"), Rel("registry")>> \o RecordEvent_
          [] op = "snapshot" ->
                <<Acq("registry", "read")>> \o RecordEvent_ \o <<Rel("registry")>>

\* The locks a call in flight holds: those acquired and not yet released by
\* the steps it has taken.
HeldLocks(c) ==
    IF c.pc # "locks" THEN {}
    ELSE LET prog == LockProgram(c.op, c.found)
         IN  { [lock |-> prog[i].lock, mode |-> prog[i].mode] :
                 i \in { j \in 1..(c.at - 1) :
                           /\ prog[j].do = "acquire"
                           /\ \A k \in (j + 1)..(c.at - 1) :
                                 ~(prog[k].do = "release"
                                   /\ prog[k].lock = prog[j].lock) } }

\* Whether thread u keeps thread t from taking its next step: t is about to
\* acquire a lock that u holds in a conflicting mode (u may be t itself), or
\* t is about to read-lock a lock that is held while u waits to write-lock it
\* (RwLock lets a waiting writer go first).
Blocks(u, t) ==
    /\ calls[t].pc = "locks"
    /\ LET want == LockProgram(calls[t].op, calls[t].found)[calls[t].at]
       IN  /\ want.do = "acquire"
           /\ \/ \E h \in HeldLocks(calls[u]) :
                    /\ h.lock = want.lock
                    /\ (want.mode = "write" \/ h.mode = "write")
              \/ /\ u # t
                 /\ want.mode = "read"
                 /\ calls[u].pc = "locks"
                 /\ LET other == LockProgram(calls[u].op, calls[u].found)[calls[u].at]
                    IN  /\ other.do = "acquire"
                        /\ other.lock = want.lock
                        /\ other.mode = "write"
                        /\ \E x \in KernelThreads : \E h \in HeldLocks(calls[x]) :
                              h.lock = want.lock

\* A thread enters a kernel call.
KernelCallBegin(t, op, found) ==
    /\ calls[t].pc = "idle"
    /\ calls' = [calls EXCEPT ![t] = [pc |-> "locks", compiled |-> @.compiled,
                                      op |-> op, found |-> found, at |-> 1]]
    /\ UNCHANGED <<ret, agent_store, plugin_cache, nodes, active_traces, entries, now>>

\* The call takes its next lock step, if no thread keeps it from it; after
\* the last step it returns.
KernelCallStep(t) ==
    /\ calls[t].pc = "locks"
    /\ \A u \in KernelThreads : ~Blocks(u, t)
    /\ IF calls[t].at < Len(LockProgram(calls[t].op, calls[t].found))
       THEN /\ calls' = [calls EXCEPT ![t].at = @ + 1]
            /\ ret' = ret
       ELSE /\ calls' = [calls EXCEPT ![t] = [pc |-> "idle", compiled |-> @.compiled]]
            /\ ret' = [op |-> calls[t].op, thread |-> t, result |-> "returned"]
    /\ UNCHANGED <<agent_store, plugin_cache, nodes, active_traces, entries, now>>

vars == <<hmVars, traceVars, kernelVars, storeVars, restVars>>

Init ==
    /\ HmInit /\ TrackerInit /\ TraceInit /\ KernelInit /\ StoreInit
    /\ MonitorInit /\ RecInit /\ AllocatorInit /\ CallsInit

otherVars == <<traceVars, kernelVars, storeVars, restVars>>

HmNext ==
    \/ \E allocation \in AllocationInputs :
          AllocateResources(allocation) /\ UNCHANGED otherVars
    \/ \E agent_id \in HmAgentIds :
          ReleaseResources(agent_id) /\ UNCHANGED otherVars

TraceNext ==
    \/ Tick /\ UNCHANGED <<hmVars, kernelVars, storeVars, restVars>>
    \/ \E a \in TraceAgentIds, i \in TraceIntents :
          TraceBegin(a, i) /\ UNCHANGED <<hmVars, kernelVars, storeVars, restVars>>
    \/ \E a \in TraceAgentIds, e \in TraceEvents, d \in TraceData,
          f \in KnownTraceIds \cup {Nil} :
          TraceRecord(a, e, d, f) /\ UNCHANGED <<hmVars, kernelVars, storeVars, restVars>>
    \/ \E id \in KnownTraceIds, ok \in BOOLEAN, r \in TraceResults :
          TraceEnd(id, ok, r) /\ UNCHANGED <<hmVars, kernelVars, storeVars, restVars>>
    \/ \E id \in KnownTraceIds \cup {UnknownTraceId} :
          TraceExport(id) /\ UNCHANGED <<hmVars, kernelVars, storeVars, restVars>>

HmConcNext ==
    \/ \E t \in HmThreads, allocation \in ConcAllocationInputs :
          AllocCheck(t, allocation) /\ UNCHANGED otherVars
    \/ \E t \in HmThreads : AllocInsert(t) /\ UNCHANGED otherVars

KernelNext ==
    \/ Tick /\ UNCHANGED <<hmVars, kernelVars, storeVars, restVars>>
    \/ \E c \in Configs :
          \E o \in IterationOrders(c.metadata) :
             \E f \in FoundChoices(active_traces, GenerateAgentId(c, o)) :
                SpawnAgent(c, o, f) /\ UNCHANGED <<hmVars, storeVars, restVars>>
    \/ \E a \in KnownAgentIds, p \in PluginIds :
          \E f \in FoundChoices(active_traces, a) :
             AttachPlugin(a, p, f) /\ UNCHANGED <<hmVars, storeVars, restVars>>
    \/ \E a \in KnownAgentIds, i \in Intents, o \in ModuleOutcomes :
          Execute(a, i, o) /\ UNCHANGED <<hmVars, storeVars, restVars>>
    \/ \E p \in GraftParents, id \in GraftRuleIds, d \in GraftDecisions :
          AddRule(p, id, id, d) /\ UNCHANGED <<hmVars, storeVars, restVars>>

SpecHM == Init /\ [][HmNext]_vars
SpecHMConc == Init /\ [][HmConcNext]_vars
Spec == Init /\ [][KernelNext]_vars
SpecTrace == Init /\ [][TraceNext]_vars
SpecStore == Init /\ [][StoreNext]_vars
SpecStoreConc == Init /\ [][StoreConcNext]_vars

\* record_event on one thread; begin_trace and end_trace, each under its
\* write lock, on another.
TraceConcNext ==
    \/ \E a \in {"agent_a"}, e \in TraceEvents, d \in TraceData :
          \E f \in FoundChoices(active_traces, a) :
             RecordFind(a, e, d, f)
             /\ UNCHANGED <<hmVars, kernelVars, storeVars, monitor, allocator, calls>>
    \/ RecordWrite /\ UNCHANGED <<hmVars, kernelVars, storeVars, monitor, allocator, calls>>
    \/ \E a \in TraceAgentIds, i \in TraceIntents :
          /\ rec.pc = "write" => Len(entries) + 2 <= MaxEntries
          /\ TraceBegin(a, i)
          /\ UNCHANGED <<hmVars, kernelVars, storeVars, restVars>>
    \/ \E id \in KnownTraceIds, ok \in BOOLEAN, r \in TraceResults :
          /\ rec.pc = "write" => Len(entries) + 2 <= MaxEntries
          /\ TraceEnd(id, ok, r)
          /\ UNCHANGED <<hmVars, kernelVars, storeVars, restVars>>
    \/ Tick /\ UNCHANGED <<hmVars, kernelVars, storeVars, restVars>>

SpecTraceConc == Init /\ [][TraceConcNext]_vars

\* An EthicalBinaryTree on its own: add_rule with any parent (one of them
\* not in the tree), new and existing rule ids, with and without a decision.
TreeNext ==
    \/ \E p \in {"root", "allow", "custom", "ghost"},
          id \in {"custom", "root"},
          rule \in {"has_consent", "is_custom"},
          d \in {None, "Allow", "Deny"} :
          AddRule(p, id, rule, d) /\ UNCHANGED <<hmVars, storeVars, restVars>>
    \/ \E in \in EvalInputs :
          TreeEvaluate(in[1], in[2]) /\ UNCHANGED <<hmVars, storeVars, restVars>>
    \/ \E rule \in {"is_harmful", "has_consent"}, in \in EvalInputs :
          TreeEvaluateRule(rule, in[1], in[2])
          /\ UNCHANGED <<hmVars, storeVars, restVars>>

SpecTree == Init /\ [][TreeNext]_vars

\* spawn_agent on a kernel with its default tree, for names with each of the
\* prohibited terms in some letter case and for names with none.
SpawnNext ==
    \/ Tick /\ UNCHANGED <<hmVars, kernelVars, storeVars, restVars>>
    \/ \E name \in {"MalwareBot", "xExploit", "Hackbot", "ATTACKER", "myVirus",
                     "bot", "Helper"} :
          \E c \in {AgentConfig(name, "p1", <<"greet">>, << >>)} :
             \E f \in FoundChoices(active_traces, GenerateAgentId(c, << >>)) :
                SpawnAgent(c, << >>, f) /\ UNCHANGED <<hmVars, storeVars, restVars>>

SpecSpawn == Init /\ [][SpawnNext]_vars

\* A ResourceAllocator on its own: built with each strategy, for limits above
\* and below the default minimums, with the minimums changed, and asked for
\* no agent, few agents and more agents than the memory limit has minimums.
AllocatorNext ==
    \/ \E limits \in {[cpu_percent |-> 3000, memory_mb |-> 800],
                      [cpu_percent |-> 50, memory_mb |-> 5]},
          strategy \in {"Even", "PriorityBased", "FCFS"} :
          AllocatorNew(limits, strategy)
          /\ UNCHANGED <<traceVars, kernelVars, storeVars, monitor, rec, calls>>
    \/ \E min_cpu \in {100, 4000}, min_memory \in {10, 900} :
          SetMinimums(min_cpu, min_memory)
          /\ UNCHANGED <<traceVars, kernelVars, storeVars, monitor, rec, calls>>
    \/ \E priority \in {0, 5, 10, 255}, agent_count \in {0, 1, 3, 81},
          overflow_checks \in BOOLEAN :
          AllocatorCalculate(priority, agent_count, overflow_checks)
          /\ UNCHANGED <<traceVars, kernelVars, storeVars, monitor, rec, calls>>

SpecAllocator == Init /\ [][AllocatorNext]_vars

\* Threads calling load_plugin on one PluginManager, for ids with and
\* without an artifact.
PluginConcNext ==
    \/ \E t \in KernelThreads, id \in {"p1", "p2", "p9"} :
          LoadPluginLookup(t, id)
          /\ UNCHANGED <<hmVars, storeVars, monitor, rec, allocator>>
    \/ \E t \in KernelThreads :
          LoadPluginInsert(t)
          /\ UNCHANGED <<hmVars, storeVars, monitor, rec, allocator>>

SpecPluginConc == Init /\ [][PluginConcNext]_vars

\* Plugin::execute called on two threads for an agent of the registry, with
\* a loaded plugin and with a placeholder.  The first thread's module makes
\* up to two set_result calls (two valid documents, an invalid one, a range
\* past the page, a range whose end passes 2^32) or reads its intent; the
\* second thread's module stores a result or echoes its intent.  The
\* kernel's execute runs for the same agent in between.
InvokeNext ==
    \/ \E c \in {AgentConfig("bot", "p1", <<"greet">>, << >>)} :
          \E f \in FoundChoices(active_traces, GenerateAgentId(c, << >>)) :
             SpawnAgent(c, << >>, f)
             /\ UNCHANGED <<hmVars, storeVars, monitor, rec, allocator, calls>>
    \/ \E plugin \in {PluginNew("p1", DefaultCapabilities,
                                [name |-> "p1", version |-> "1.0.0"], [wasm |-> "p1"]),
                      PluginPlaceholder("p1")},
          a \in DOMAIN agent_store, intent \in {<<"7">>, <<"g">>},
          overflow_checks \in BOOLEAN :
          LET Ranges == {<<U32(0, 0), U32(0, 1)>>, <<U32(0, 1), U32(0, 2)>>,
                         <<U32(0, 3), U32(0, 1)>>, <<U32(0, 65535), U32(0, 2)>>,
                         <<U32(65535, 65535), U32(0, 2)>>}
              Sets == {[fn |-> "set_result", ptr |-> r[1], len |-> r[2]] : r \in Ranges}
              Echo == <<[fn |-> "get_intent", ptr |-> U32(0, 0)],
                        [fn |-> "set_result", ptr |-> U32(0, 0), len |-> U32(0, 1)]>>
          IN  \/ \E script \in {<< >>} \cup {<<x>> : x \in Sets}
                                 \cup {<<x, y>> : x \in Sets, y \in Sets}
                                 \cup {Echo, <<[fn |-> "get_intent",
                                                ptr |-> U32(65535, 65535)]>>} :
                    PluginExecuteBegin(1, plugin, a, intent, script, overflow_checks)
              \/ \E script \in {<< >>, Echo,
                                <<[fn |-> "set_result", ptr |-> U32(0, 1),
                                   len |-> U32(0, 2)]>>} :
                    PluginExecuteBegin(2, plugin, a, intent, script, overflow_checks)
       /\ UNCHANGED <<hmVars, storeVars, monitor, rec, allocator>>
    \/ \E t \in KernelThreads :
          PluginExecuteHostCall(t)
          /\ UNCHANGED <<hmVars, storeVars, monitor, rec, allocator>>
    \/ \E t \in KernelThreads :
          PluginExecuteReturn(t)
          /\ UNCHANGED <<hmVars, storeVars, monitor, rec, allocator>>
    \/ \E a \in DOMAIN agent_store, i \in {"greet", "harm"}, o \in ModuleOutcomes :
          /\ Len(entries) <= 2
          /\ Execute(a, i, o)
          /\ UNCHANGED <<hmVars, storeVars, monitor, rec, allocator, calls>>

SpecInvoke == Init /\ [][InvokeNext]_vars

\* recover on two threads of one kernel whose storage is initialized, next
\* to spawn_agent, snapshot and attach_plugin calls; the kernel is dropped
\* and rebuilt in the same process when no call is in flight.
RecoverConcNext ==
    \/ InitStorage /\ UNCHANGED <<hmVars, restVars>>
    \/ \E c \in {AgentConfig("bot", "p1", <<"greet">>, << >>)} :
          \E f \in FoundChoices(active_traces, GenerateAgentId(c, << >>)) :
             SpawnAgent(c, << >>, f) /\ UNCHANGED <<hmVars, storeVars, restVars>>
    \/ \E a \in DOMAIN agent_store :
          \E f \in FoundChoices(active_traces, a) :
             Snapshot(a, << >>, f) /\ UNCHANGED <<hmVars, restVars>>
    \/ \E a \in DOMAIN agent_store :
          \E f \in FoundChoices(active_traces, a) :
             AttachPlugin(a, "p1", f) /\ UNCHANGED <<hmVars, storeVars, restVars>>
    \/ \E o \in OrderChoices(agent_store) :
          /\ \A t \in KernelThreads : calls[t].pc = "idle"
          /\ DropAndNew(o, TRUE)
          /\ UNCHANGED <<hmVars, restVars>>
    \/ \E t \in KernelThreads, a \in (DOMAIN agent_store) \cup (DOMAIN storage.files) :
          RecoverCheck(t, a) /\ UNCHANGED <<hmVars, monitor, rec, allocator>>
    \/ \E t \in KernelThreads :
          \E f \in IF calls[t].pc = "recover"
                   THEN FoundChoices(active_traces, calls[t].agent_id) ELSE {} :
             RecoverInsert(t, f) /\ UNCHANGED <<hmVars, monitor, rec, allocator>>

SpecRecoverConc == Init /\ [][RecoverConcNext]_vars

\* The five kernel calls made from several threads of one kernel.
LocksNext ==
    \/ \E t \in KernelThreads,
          op \in {"spawn_agent", "attach_plugin", "execute", "recover", "snapshot"},
          found \in BOOLEAN :
          KernelCallBegin(t, op, found)
          /\ UNCHANGED <<hmVars, storeVars, monitor, rec, allocator>>
    \/ \E t \in KernelThreads :
          KernelCallStep(t)
          /\ UNCHANGED <<hmVars, storeVars, monitor, rec, allocator>>

SpecLocks == Init /\ [][LocksNext]_vars

MonitorNext ==
    \/ \E h \in {"console", "file"} : AddAlertHandler(h) /\ UNCHANGED <<traceVars, kernelVars, storeVars, rec, allocator, calls>>
    \/ StartMonitoring /\ UNCHANGED <<traceVars, kernelVars, storeVars, rec, allocator, calls>>
    \/ \E c \in {10, 30, 40}, m \in {100, 800, 900} :
          MonitorSample(c, m) /\ UNCHANGED <<traceVars, kernelVars, storeVars, rec, allocator, calls>>

SpecMonitor == Init /\ [][MonitorNext]_vars

TrackerNext ==
    \/ /\ TrackerTick
       /\ UNCHANGED <<allocations, hm_ret, hm_pc, hm_req, active_traces, entries,
                      kernelVars, storeVars, restVars>>
    \/ \E c \in SampleCpu, m \in SampleMem, ts \in SampleTimestamps :
          /\ AddStats([cpu_percent |-> c, memory_mb |-> m, timestamp |-> ts])
          /\ UNCHANGED <<allocations, hm_ret, hm_pc, hm_req, active_traces, entries,
                         kernelVars, storeVars, restVars>>
    \/ /\ ShouldWarn(TrackerLimits)
       /\ UNCHANGED <<allocations, hm_ret, hm_pc, hm_req, active_traces, entries,
                      kernelVars, storeVars, restVars>>

SpecTracker == Init /\ [][TrackerNext]_vars

\* C1: after any sequence of sequential allocate_resources and
\* release_resources calls, the ledger's cpu_percent sum is at most
\* limits.cpu_percent and its memory_mb sum at most limits.memory_mb.
C1_LedgerWithinLimits ==
    /\ TotalAllocatedCpu(allocations) <= LimitCpu
    /\ TotalAllocatedMemory(allocations) <= LimitMem

\* C2: under every interleaving of allocate_resources calls for different
\* agent_ids on several threads, the ledger sums never exceed the limits.
C2_ConcurrentLedgerWithinLimits ==
    /\ SumCpu(allocations, DOMAIN allocations) <= LimitCpu
    /\ SumMem(allocations, DOMAIN allocations) <= LimitMem

\* The entries of the log that carry trace id, in append order.
EntriesOf(id) == SelectSeq(entries, LAMBDA e : e.id = id)

\* C3: for every two adjacent entries of the log that share a trace_id the
\* later one's prev_hash is the earlier one's hash, and only the first entry
\* of a trace has no prev_hash.
C3_ChainLinked ==
    \A id \in KnownTraceIds :
        LET es == EntriesOf(id)
        IN  \A k \in 2..Len(es) :
                /\ es[k].prev_hash # Nil
                /\ es[k].prev_hash = es[k - 1].hash

\* C4: the entries of each trace_id hold exactly one "trace.begin", which is
\* the first of them, and at most one "trace.end", which is the last.
C4_Bookends ==
    \A id \in KnownTraceIds :
        LET es == EntriesOf(id)
        IN  /\ es[1].event_type = "trace.begin"
            /\ \A k \in 2..Len(es) : es[k].event_type # "trace.begin"
            /\ \A k \in 1..(Len(es) - 1) : es[k].event_type # "trace.end"

\* C5: a spawn_agent or execute call that returns EthicalConstraintViolated
\* leaves the agent registry, the stored entries and the active traces as
\* they were before the call.
C5_DenialLeavesRegistryAndLog ==
    [][(/\ ret'.op \in {"spawn_agent", "execute"}
        /\ ret'.result = "EthicalConstraintViolated")
       => /\ agent_store' = agent_store
          /\ entries' = entries
          /\ active_traces' = active_traces]_vars

\* A spawn_agent has just been denied in a kernel that holds an agent and a
\* trace log.
C5_DeniedSpawnSeen ==
    /\ ret.op = "spawn_agent"
    /\ ret.result = "EthicalConstraintViolated"
    /\ agent_store # << >>
    /\ entries # << >>
    /\ active_traces # << >>

\* C6: an attach_plugin call that returns EthicalConstraintViolated leaves
\* the plugin cache, the agents' plugin maps and the trace log as they were
\* before the call.
C6_DeniedAttachLeavesCache ==
    [][(/\ ret'.op = "attach_plugin"
        /\ ret'.result = "EthicalConstraintViolated")
       => /\ plugin_cache' = plugin_cache
          /\ agent_store' = agent_store
          /\ entries' = entries
          /\ active_traces' = active_traces]_vars

\* C7: the agent id is a function of the config alone, so the registry holds
\* a single entry for agents spawned from equal configs.
C7_EqualConfigsOneEntry ==
    \A a, b \in DOMAIN agent_store :
        agent_store[a].config = agent_store[b].config => a = b

\* C8: after attach_plugin has succeeded for an agent's entry plugin, the
\* handle registered on the agent is the loaded, executable plugin.
C8_AttachedEntryPluginLoaded ==
    (/\ ret.op = "attach_plugin"
     /\ ret.result = "Ok"
     /\ agent_store[ret.agent_id].config.entry = ret.plugin_id)
    => /\ agent_store[ret.agent_id].plugins[ret.plugin_id].loaded
       /\ agent_store[ret.agent_id].plugins[ret.plugin_id].module # Nil

\* C9: when an execute call that began a trace returns, that trace has
\* exactly one trace.end entry, its success flag says whether the plugin
\* invocation succeeded, and the trace is not in the active set.
C9_ExecuteEndsItsTrace ==
    (ret.op = "execute" /\ "trace_id" \in DOMAIN ret)
    => LET ends == SelectSeq(EntriesOf(ret.trace_id),
                             LAMBDA e : e.event_type = "trace.end")
       IN  /\ Len(ends) = 1
           /\ ends[1].data.success = ret.invoked_ok
           /\ ret.trace_id \notin DOMAIN active_traces

\* C10: an execute call with an intent outside the agent's allowed intents
\* returns ExecutionError, and it appends no trace.end with success = true.
C10_DisallowedIntentIsExecutionError ==
    (/\ ret.op = "execute"
     /\ ret.agent_id \in DOMAIN agent_store
     /\ ~SeqContains(agent_store[ret.agent_id].config.intents, ret.intent))
    => /\ ret.result = "ExecutionError"
       /\ "trace_id" \in DOMAIN ret => ~ret.invoked_ok

\* C11: after snapshot(id) of an agent of the registry, recover(id) on a
\* kernel whose registry does not hold id returns Ok and puts into the
\* registry an agent whose config, state and created_at are those of the
\* agent the snapshot was taken of.
C11_SnapshotRecoverRoundTrip ==
    [][(/\ ret'.op = "recover"
        /\ ret'.agent_id \notin DOMAIN agent_store
        /\ ret'.agent_id \in DOMAIN saved)
       => /\ ret'.result = "Recovered"
          /\ ret'.agent_id \in DOMAIN agent_store'
          /\ agent_store'[ret'.agent_id].config = saved[ret'.agent_id].config
          /\ agent_store'[ret'.agent_id].state = saved[ret'.agent_id].state
          /\ agent_store'[ret'.agent_id].created_at
                = saved[ret'.agent_id].created_at]_vars

\* C12: when recover loads an agent from storage, the agent it inserts into
\* the registry has status Recovered and the call returns Recovered.
C12_RecoveredStatus ==
    (ret.op = "recover" /\ ret.loaded /\ ret.result # "StorageError")
    => /\ ret.result = "Recovered"
       /\ agent_store[ret.agent_id].status = "Recovered"

\* C13: recover of an id that is in the registry returns Active, does not
\* read storage, and leaves the registry, the trace log and storage as they
\* were.
C13_RecoverOfLiveAgent ==
    [][(ret'.op = "recover" /\ ret'.agent_id \in DOMAIN agent_store)
       => /\ ret'.result = "Active"
          /\ ~ret'.loaded
          /\ agent_store' = agent_store
          /\ entries' = entries
          /\ active_traces' = active_traces
          /\ storage' = storage]_vars

\* recover has returned Active for an agent whose agent.spawn entry is the
\* last of a log that holds nothing but that spawn.
C13_RecoverRightAfterSpawnSeen ==
    /\ ret.op = "recover"
    /\ ret.result = "Active"
    /\ Len(entries) = 2
    /\ entries[2].event_type = "agent.spawn"
    /\ entries[2].agent_id = ret.agent_id
    /\ ~storage.initialized

\* C14: recover of an id that is neither in the registry nor in storage
\* returns StorageError and leaves the registry and the trace log unchanged.
C14_RecoverMiss ==
    [][(/\ ret'.op = "recover"
        /\ ret'.agent_id \notin DOMAIN agent_store
        /\ ret'.agent_id \notin DOMAIN storage.files)
       => /\ ret'.result = "StorageError"
          /\ agent_store' = agent_store
          /\ entries' = entries
          /\ active_traces' = active_traces]_vars

\* recover has missed in a kernel with an agent, a log and an initialized
\* storage that holds another agent's snapshot.
C14_RecoverMissSeen ==
    /\ ret.op = "recover"
    /\ ret.result = "StorageError"
    /\ storage.initialized
    /\ storage.files # << >>
    /\ ret.agent_id \notin DOMAIN storage.files
    /\ agent_store # << >>
    /\ entries # << >>

\* C15: a successful attach_plugin of a plugin the agent already holds leaves
\* the agent as it was: the same plugin map, config, status and state.
C15_SecondAttachNoOp ==
    [][(/\ ret'.op = "attach_plugin"
        /\ ret'.result = "Ok"
        /\ ret'.plugin_id \in DOMAIN agent_store[ret'.agent_id].plugins)
       => agent_store'[ret'.agent_id] = agent_store[ret'.agent_id]]_vars

\* The log holds two agent.attach_plugin entries of the agent and plugin of
\* the attach that has just succeeded.
C15_SecondAttachSeen ==
    /\ ret.op = "attach_plugin"
    /\ ret.result = "Ok"
    /\ Len(SelectSeq(entries,
                     LAMBDA e : /\ e.event_type = "agent.attach_plugin"
                                /\ e.agent_id = ret.agent_id
                                /\ e.data.plugin_id = ret.plugin_id)) = 2

\* The positions of the log whose entry carries trace id.
PositionsOf(id) == { i \in 1..Len(entries) : entries[i].id = id }

\* C16: export_zk_proof fails when the log has no entry of the trace, and
\* otherwise reports as 'entries' the number of log entries of the trace and
\* as 'root_hash' the hash of the last of them in append order.
C16_ProofCountsAndRoot ==
    ret.op = "export_zk_proof"
    => IF PositionsOf(ret.trace_id) = {} THEN ret.result = "Err"
       ELSE /\ ret.result = "Ok"
            /\ ret.proof.entries = Cardinality(PositionsOf(ret.trace_id))
            /\ \E last \in PositionsOf(ret.trace_id) :
                  /\ \A i \in PositionsOf(ret.trace_id) : i <= last
                  /\ ret.proof.root_hash = entries[last].hash

\* A proof of a trace of four entries, begun, twice recorded into and ended,
\* has been exported.
C16_FourEntryProofSeen ==
    /\ ret.op = "export_zk_proof"
    /\ ret.result = "Ok"
    /\ ret.proof.entries = 4
    /\ entries[1].event_type = "trace.begin"
    /\ entries[2].event_type = "test_event"
    /\ entries[3].event_type = "test_event"
    /\ entries[4].event_type = "trace.end"
    /\ entries[4].data.success

\* C17: a should_warn call that returns a warning stamps the tracker with
\* its time t, and every should_warn call at a time before t + 60 returns
\* None whatever the samples are.
C17_OneWarningPerWindow ==
    [][ret'.op = "should_warn"
       => /\ ret'.result # Nil => tracker'.last_warning = [at |-> now']
          /\ (/\ tracker.last_warning # Nil
              /\ now' < tracker.last_warning.at + ThrottleSeconds)
             => /\ ret'.result = Nil
                /\ tracker'.last_warning = tracker.last_warning]_vars

\* should_warn has returned None, inside the window of an earlier warning,
\* on a sample over the CPU threshold.
C17_SuppressedWarningSeen ==
    /\ ret.op = "should_warn"
    /\ ret.result = Nil
    /\ tracker.last_warning # Nil
    /\ now > tracker.last_warning.at
    /\ now < tracker.last_warning.at + ThrottleSeconds
    /\ tracker.cpu_history # << >>
    /\ AtThreshold(tracker.cpu_history[Len(tracker.cpu_history)][2], LimitCpu)

\* The resources a should_warn result carries an alert for.
AlertsOf(result) == IF result = Nil THEN {} ELSE {result.resource}

\* C18: a should_warn call that is not throttled, on a sample with CPU and
\* memory both over the threshold, emits an alert for CPU and an alert for
\* memory.
C18_BothResourcesAlerted ==
    [][(/\ ret'.op = "should_warn"
        /\ tracker.cpu_history # << >>
        /\ tracker.memory_history # << >>
        /\ AtThreshold(tracker.cpu_history[Len(tracker.cpu_history)][2], LimitCpu)
        /\ AtThreshold(tracker.memory_history[Len(tracker.memory_history)][2],
                       LimitMem)
        /\ \/ tracker.last_warning = Nil
           \/ now' - tracker.last_warning.at >= ThrottleSeconds)
       => AlertsOf(ret'.result) = {"CPU", "Memory"}]_vars

\* C19: an allocate_resources call that returns ResourceLimitExceeded and a
\* release_resources call that returns ConfigError leave the ledger as it
\* was.
C19_RejectedCallsKeepLedger ==
    [][(\/ /\ hm_ret'.op = "allocate_resources"
           /\ hm_ret'.result = "ResourceLimitExceeded"
        \/ /\ hm_ret'.op = "release_resources"
           /\ hm_ret'.result = "ConfigError")
       => allocations' = allocations]_vars

\* An allocation has been rejected while the ledger holds an earlier one.
C19_RejectedWithLedgerSeen ==
    /\ hm_ret.op = "allocate_resources"
    /\ hm_ret.result = "ResourceLimitExceeded"
    /\ hm_ret.arg.cpu_percent = 20
    /\ hm_ret.arg.memory_mb = 500
    /\ \E id \in DOMAIN allocations :
          /\ id # hm_ret.arg.agent_id
          /\ allocations[id].cpu_percent = 20
          /\ allocations[id].memory_mb = 400

\* C20: a load_agent that runs while a save_agent of the same agent is in
\* progress returns a whole blob: it never fails to deserialize.
C20_LoadNeverSeesPartialWrite ==
    (ret.op = "load_agent" /\ ret.result = "Err")
    => ret.error # "Failed to deserialize agent"

\* C21: an iteration of the monitoring loop whose sample is over the CPU
\* limit or over the memory limit hands an alert to every registered
\* handler.
C21_ExceedingSampleReachesHandlers ==
    [][(/\ hm_ret'.op = "sample"
        /\ \/ hm_ret'.cpu_usage > LimitCpu
           \/ hm_ret'.memory_usage > LimitMem)
       => \A i \in 1..Len(monitor.alert_handlers) :
             \E j \in 1..Len(monitor'.delivered) :
                /\ j > Len(monitor.delivered)
                /\ monitor'.delivered[j].handler = i]_vars

\* C28: a record_event call returns Ok under every interleaving with
\* end_trace calls: it never fails with "Trace not found".
C28_RecordEventNeverMissesTrace ==
    ret.op = "record_event" => ret.result = "Ok"

\* C22: when the kernel is dropped, save_agent is called for every agent of
\* the registry, whether or not an earlier save failed, and the drop runs
\* to its end.
C22_DropSavesEveryAgent ==
    [][ret'.op = "drop"
       => /\ ret'.attempted = DOMAIN agent_store
          /\ ret'.failed \subseteq ret'.attempted
          /\ \A id \in DOMAIN agent_store : saved'[id] = agent_store[id]]_vars

\* A kernel with two agents has been dropped with no storage handle: the
\* save of each of them was attempted and failed.
C22_TwoFailedSavesSeen ==
    /\ ret.op = "drop"
    /\ Cardinality(ret.attempted) = 2
    /\ ret.failed = ret.attempted
    /\ ~storage.initialized
    /\ storage.files = << >>

\* C29: the has_consent rule is false under "plugin_validation" with a
\* payload of risk_level "high", and true in every other case.
C29_HasConsentFalseForHighRisk ==
    (ret.op = "evaluate_rule" /\ ret.rule = "has_consent")
    => (ret.result <=> ~(/\ ret.context = "plugin_validation"
                         /\ ret.data.risk_level = "high"))

\* C30: in the default tree and after every sequence of add_rule calls, each
\* node has a terminal decision or at least one child, and not both.
C30_DecisionXorChild ==
    \A id \in DOMAIN nodes :
        (nodes[id].decision # None)
        <=> ~(nodes[id].left # None \/ nodes[id].right # None)

\* C23: evaluate returns what the walk from the root stops at.  The walk
\* goes from a node without decision to its right child when the node's rule
\* is true and to its left child when it is false; it stops at a node with a
\* decision (the result), at a missing true branch (Deny), at a missing
\* false branch (Allow) and at an id that is not in the node map (Deny).
C23_EvaluateFollowsWalk ==
    ret.op = "evaluate"
    => LET holds(id) == EvaluateRule(nodes[id].rule, ret.context, ret.data)
           inner(id) == id \in DOMAIN nodes /\ nodes[id].decision = None
           taken(id) == IF holds(id) THEN nodes[id].right ELSE nodes[id].left
           ids == (DOMAIN nodes)
                  \cup { nodes[n].left : n \in DOMAIN nodes }
                  \cup { nodes[n].right : n \in DOMAIN nodes }
           closed(R) == /\ RootId \in R
                        /\ \A id \in R : inner(id) => taken(id) \in R
           walk == { x \in ids : \A R \in SUBSET ids : closed(R) => x \in R }
           stops == { x \in walk \ {None} : inner(x) => taken(x) = None }
           outcome(x) == IF x \notin DOMAIN nodes THEN "Deny"
                         ELSE IF nodes[x].decision # None THEN nodes[x].decision
                         ELSE IF holds(x) THEN "Deny" ELSE "Allow"
       IN  /\ stops # {}
           /\ \A x \in stops : ret.result = outcome(x)

\* evaluate has returned Allow from a grafted node without decision and
\* without children, reached through the root's false branch.
C23_MissingLeftAllowSeen ==
    /\ ret.op = "evaluate"
    /\ ret.result = "Allow"
    /\ nodes["root"].left = "custom"
    /\ nodes["root"].decision = None
    /\ ~EvaluateRule(nodes["root"].rule, ret.context, ret.data)
    /\ nodes["custom"].decision = None
    /\ nodes["custom"].left = None
    /\ ~EvaluateRule(nodes["custom"].rule, ret.context, ret.data)

\* C24: spawn_agent is rejected with EthicalConstraintViolated, and stores
\* nothing, for a name that holds 'malware', 'exploit', 'hack', 'attack' or
\* 'virus' in any letter case; a config with a benign name and benign
\* intents is accepted and stored.
C24_ProhibitedNamesRejected ==
    [][ret'.op = "spawn_agent"
       => /\ ret'.name \in {"MalwareBot", "xExploit", "Hackbot", "ATTACKER",
                            "myVirus"}
             => /\ ret'.result = "EthicalConstraintViolated"
                /\ agent_store' = agent_store
                /\ entries' = entries
          /\ ret'.name \in {"bot", "Helper"}
             => /\ ret'.result = "Ok"
                /\ ret'.agent_id \in DOMAIN agent_store'
                /\ agent_store'[ret'.agent_id].config.name = ret'.name]_vars

\* The spawn of "ATTACKER" has been rejected by a kernel that had accepted
\* "bot" and "Helper".
C24_UpperCaseNameRejectedSeen ==
    /\ ret.op = "spawn_agent"
    /\ ret.name = "ATTACKER"
    /\ ret.result = "EthicalConstraintViolated"
    /\ { agent_store[a].config.name : a \in DOMAIN agent_store } = {"bot", "Helper"}

\* C25: an execute call with an intent outside the agent's allowed set is
\* rejected before the ethical validation and before begin_trace: it returns
\* ExecutionError, also when the intent holds a prohibited action word, and
\* it appends no trace entry.
C25_AllowedSetCheckedFirst ==
    [][(/\ ret'.op = "execute"
        /\ ret'.agent_id \in DOMAIN agent_store
        /\ ~SeqContains(agent_store[ret'.agent_id].config.intents, ret'.intent))
       => /\ ret'.result = "ExecutionError"
          /\ entries' = entries
          /\ active_traces' = active_traces]_vars

\* C26: a spawn_agent with a config equal to that of an agent of the
\* registry leaves that agent's state map, attached plugins and created_at
\* as they were.
C26_RespawnPreservesAgent ==
    [][(ret'.op = "spawn_agent" /\ ret'.result = "Ok")
       => \A a \in DOMAIN agent_store :
             agent_store[a].config = agent_store'[ret'.agent_id].config
             => /\ agent_store'[a].state = agent_store[a].state
                /\ agent_store'[a].plugins = agent_store[a].plugins
                /\ agent_store'[a].created_at = agent_store[a].created_at]_vars

\* C27: every entry with a prev_hash, the "trace.end" entries among them,
\* has hash = H(prev_hash, ":", event_type, data, timestamp) over its own
\* fields.
C27_HashCoversTypeAndTime ==
    \A i \in 1..Len(entries) :
        entries[i].prev_hash # Nil
        => entries[i].hash
              = ComputeHash([event_type |-> entries[i].event_type,
                             data |-> entries[i].data,
                             now |-> entries[i].timestamp],
                            entries[i].prev_hash)

\* C31: on every tree that add_rule calls build from the default one, the
\* left/right links form no cycle (every non-empty set of nodes has a member
\* with no child in the set) and every evaluate call returns a decision.
C31_LinksAcyclicEvaluateReturns ==
    /\ \A S \in SUBSET (DOMAIN nodes) :
          S # {} => \E id \in S : /\ nodes[id].left \notin S
                                  /\ nodes[id].right \notin S
    /\ ret.op = "evaluate" => ret.result \in {"Allow", "Deny"}

\* C31 witness: evaluate has returned on a tree whose root was re-added by
\* add_rule under its own id as the parent.
C31_EvaluateAfterSelfParentSeen ==
    /\ ret.op = "evaluate"
    /\ ret.result \in {"Allow", "Deny"}
    /\ nodes["root"].parent = "root"
    /\ "custom" \in DOMAIN nodes

\* C39: every begin_trace that returns Ok returns a trace_id that was
\* neither in the active set nor the id of an entry of the log before the
\* call, and leaves every TraceContext stored before the call as it was.
C39_BeginTraceIdIsFresh ==
    [][(ret'.op = "begin_trace" /\ ret'.result = "Ok")
       => /\ ret'.trace_id \notin DOMAIN active_traces
          /\ ret'.trace_id \notin KnownTraceIds
          /\ \A id \in DOMAIN active_traces :
                active_traces'[id] = active_traces[id]]_vars

\* C40: on the default tree every evaluate call returns Allow; validate_plugin
\* accepts every plugin, one with external_access among them; validate_spawn
\* rejects exactly the names with a prohibited term and validate_execution
\* exactly the intents with a prohibited action.
C40_DefaultTreeAlwaysAllows ==
    LET HasTerm(s, terms) ==
            \E k \in 1..Len(terms) : StrContains(ToLowercase(Spelling(s)), terms[k])
    IN  /\ (ret.op = "evaluate" /\ nodes = DefaultNodes) => ret.result = "Allow"
        /\ \A cap \in {DefaultCapabilities,
                       [DefaultCapabilities EXCEPT !.plugin_call = TRUE],
                       [DefaultCapabilities EXCEPT !.external_access = TRUE]} :
              ValidatePlugin(DefaultNodes, PluginNew("p1", cap, << >>, "module")) = "Ok"
        /\ \A name \in {"MalwareBot", "Hackbot", "bot", "Helper"},
              intents \in {<<"greet">>, <<"harm">>, <<"greet", "Wipe">>} :
              (ValidateSpawn(DefaultNodes, AgentConfig(name, "p1", intents, << >>)) = "Err")
                 <=> HasTerm(name, ProhibitedTerms)
        /\ \A intent \in Intents :
              (ValidateExecution(DefaultNodes, "a1", intent) = "Err")
                 <=> HasTerm(intent, ProhibitedActions)

\* C40 witness: evaluate on the default tree has returned Allow for an
\* agent_spawn payload with the intent "harm".
C40_HarmfulSpawnAllowedSeen ==
    /\ ret.op = "evaluate"
    /\ nodes = DefaultNodes
    /\ ret.context = "agent_spawn"
    /\ ret.data.intents = <<"harm">>
    /\ ret.result = "Allow"

\* C32: an allocate_resources call for an agent_id that has a ledger entry,
\* asking for no more CPU and no more memory than that entry holds, returns
\* Ok and leaves the request as that agent's entry.
C32_ReallocatingOwnShareSucceeds ==
    [][(/\ hm_ret'.op = "allocate_resources"
        /\ hm_ret'.arg.agent_id \in DOMAIN allocations
        /\ hm_ret'.arg.cpu_percent <= allocations[hm_ret'.arg.agent_id].cpu_percent
        /\ hm_ret'.arg.memory_mb <= allocations[hm_ret'.arg.agent_id].memory_mb)
       => /\ hm_ret'.result = "Ok"
          /\ allocations'[hm_ret'.arg.agent_id] = hm_ret'.arg]_vars

\* C33: every calculate_allocation call returns, with a memory value of at
\* most limits.memory_mb and a CPU value of at most limits.cpu_percent,
\* and no u32 operation of the call wraps.
C33_AllocationWithinLimitsNoPanic ==
    hm_ret.op = "calculate_allocation"
    => /\ hm_ret.result.outcome = "returns"
       /\ ~hm_ret.result.wrapped
       /\ hm_ret.result.memory <= allocator.limits.memory_mb
       /\ hm_ret.result.cpu <= allocator.limits.cpu_percent

\* C34: the cache holds under each id a handle of that id; a load_plugin
\* that finds its id in the cache returns the handle the cache holds and
\* compiles nothing; a load_plugin for an id without an artifact returns an
\* error; neither changes the cache; a call compiles an artifact only when
\* its lookup did not find the id in the cache.
C34_CachedHandleReturned ==
    [][/\ \A id \in DOMAIN plugin_cache' : plugin_cache'[id].id = id
       /\ (ret'.op = "load_plugin" /\ ret'.step = "lookup")
          => /\ plugin_cache' = plugin_cache
             /\ calls' = calls
             /\ IF ret'.plugin_id \in DOMAIN plugin_cache
                THEN /\ ret'.result = "Ok"
                     /\ ret'.plugin = plugin_cache[ret'.plugin_id]
                ELSE /\ ret'.result = "Err"
                     /\ ret'.plugin_id \notin PluginDir
       /\ (ret'.op = "load_plugin" /\ ret'.plugin_id \notin PluginDir)
          => ret'.result = "Err" /\ plugin_cache' = plugin_cache
       /\ \A t \in KernelThreads :
             calls'[t].compiled # calls[t].compiled
             => calls'[t].plugin.id \notin DOMAIN plugin_cache]_vars

\* C34 witness: both threads have compiled p1 and inserted their handle, and
\* a later load_plugin("p1") got the handle of the second insert from the
\* cache.
C34_CachedAfterRaceSeen ==
    /\ ret.op = "load_plugin"
    /\ ret.step = "lookup"
    /\ ret.plugin_id = "p1"
    /\ ret.result = "Ok"
    /\ ret.plugin.module.thread = 2
    /\ calls[1] = [pc |-> "idle", compiled |-> 1]
    /\ DOMAIN plugin_cache = {"p1"}

\* C35: an invocation whose module only calls set_result returns the value
\* of its last set_result, or {"status":"executed","result":null} when it
\* made none, if every call names a range inside the memory that holds a
\* JSON document; if some call does not, the invocation fails with an
\* ExecutionError.
C35_ResultIsLastSetResult ==
    [][(ret'.op = "plugin_execute" /\ ret'.ran
        /\ \A k \in 1..Len(calls[ret'.thread].script) :
              calls[ret'.thread].script[k].fn = "set_result")
       => LET script == calls[ret'.thread].script
              Document(c) == FromSlice(SliceGet(ModuleData, c.ptr, AddU32(c.ptr, c.len).value))
              Valid(c) == /\ c.ptr.hi = 0 /\ c.len.hi = 0
                          /\ c.ptr.lo + c.len.lo <= 65536
                          /\ Document(c).ok
          IN  IF \E k \in 1..Len(script) : ~Valid(script[k])
              THEN /\ ret'.result.outcome = "Err"
                   /\ ret'.result.error = "ExecutionError"
              ELSE /\ ret'.result.outcome = "Ok"
                   /\ ret'.result.value
                        = IF script = << >>
                          THEN [object |-> [status |-> "executed", result |-> "null"]]
                          ELSE Document(script[Len(script)]).json]_vars

\* C36: no step of an execute or of a plugin invocation changes an agent of
\* the registry, and an invocation returns what its module's host calls
\* give when run on a store of its own (its own intent, no result, the
\* module's own memory), whatever another invocation does in between.
C36_InvocationFrameAndIsolation ==
    [][/\ ret'.op \in {"execute", "plugin_execute", "plugin_execute_begin", "host_call"}
          => agent_store' = agent_store
       /\ (ret'.op = "plugin_execute" /\ ret'.ran)
          => LET c == calls[ret'.thread]
                 RECURSIVE Run(_, _)
                 Run(st, todo) ==
                     IF todo = << >>
                     THEN [outcome |-> "Ok",
                           value |-> IF st.result = Nil
                                     THEN [object |-> [status |-> "executed",
                                                       result |-> "null"]]
                                     ELSE st.result]
                     ELSE LET r == HostCall(st, Head(todo), c.overflow_checks)
                          IN  IF r.outcome = "Ok" THEN Run(r.st, Tail(todo))
                              ELSE IF r.outcome = "Err"
                              THEN [outcome |-> "Err", error |-> "ExecutionError",
                                    message |-> r.message]
                              ELSE [outcome |-> "Panic", message |-> r.message]
             IN  ret'.result = Run([agent_id |-> c.st.agent_id, intent |-> c.st.intent,
                                    state |-> c.st.state, result |-> Nil,
                                    memory |-> ModuleData], c.script)]_vars

\* C36 witness: the first invocation has returned the 7 of its own memory
\* while the second, with the intent "g", is in flight and has written that
\* intent to address 0 of its memory; the agent is in the registry.
C36_ConcurrentInvocationsSeen ==
    /\ ret.op = "plugin_execute"
    /\ ret.thread = 1
    /\ ret.ran
    /\ ret.result.outcome = "Ok"
    /\ ret.result.value = [number |-> <<"7">>]
    /\ calls[2].pc = "run"
    /\ calls[2].st.intent = <<"g">>
    /\ calls[2].st.memory[0] = "g"
    /\ calls[2].st.agent_id \in DOMAIN agent_store

\* C38: a recover call leaves every agent that is in the registry as it is;
\* in particular the plugins attached to it stay attached.
C38_RecoverKeepsRegisteredAgent ==
    [][ret'.op = "recover"
       => \A id \in DOMAIN agent_store :
             /\ id \in DOMAIN agent_store'
             /\ DOMAIN agent_store[id].plugins \subseteq DOMAIN agent_store'[id].plugins]_vars

\* C37: no set of calls in flight is stuck, each kept from its next step by
\* a call of the set; and every call acquires its locks in the order
\* registry, plugin cache, nodes, plugin map, active traces, entries.
C37_NoDeadlockConsistentOrder ==
    LET Rank(l) == CHOOSE i \in 1..6 :
                      <<"registry", "plugin_cache", "nodes", "agent_plugins",
                        "active_traces", "entries">>[i] = l
    IN  /\ \A S \in SUBSET KernelThreads :
              S # {} => \E t \in S : \A u \in S : ~Blocks(u, t)
        /\ \A t \in KernelThreads :
              calls[t].pc = "locks"
              => LET step == LockProgram(calls[t].op, calls[t].found)[calls[t].at]
                 IN  step.do = "acquire"
                     => \A h \in HeldLocks(calls[t]) : Rank(h.lock) < Rank(step.lock)

\* C37 witness: an execute holds the agent's registry shard and the write
\* lock on the active traces while a spawn_agent on the other thread waits
\* for the registry.
C37_CallWaitsForLockSeen ==
    /\ calls[1].pc = "locks"
    /\ calls[1].op = "execute"
    /\ [lock |-> "active_traces", mode |-> "write"] \in HeldLocks(calls[1])
    /\ calls[2].pc = "locks"
    /\ calls[2].op = "spawn_agent"
    /\ Blocks(1, 2)

====
